---------------------------- MODULE Spec2Model ----------------------------
(***************************************************************************)
(* A model of the bitplanning planner: the BitMask algebra (bitmask.py),   *)
(* domain compilation, pools, sequences and the search loop (domain.py).   *)
(*                                                                         *)
(* Encodings.                                                              *)
(*  - A Python non-negative integer used as a bit field is the set of the  *)
(*    positions of its 1 bits: 1 << i is {i}, & is \cap, | is \cup, ^ is   *)
(*    the symmetric difference and ~x is the complement within Positions   *)
(*    (every ~x of the source is and-ed with a mask before it is stored).  *)
(*  - A Python string is the sequence of its character codes, so that      *)
(*    prefixes, slices and lexicographic order are computed, not assumed.  *)
(*  - An operation that can raise has two operators: X_raises (the         *)
(*    condition under which it raises) and X (its value when it does not). *)
(***************************************************************************)
EXTENDS Integers, Sequences, FiniteSets, TLC

(* ------------------------------ bounds -------------------------------- *)

\* Bit positions the model tracks (Python integers are unbounded).
NumBits == 4

\* The largest number of actions of a domain.
MaxActions == 3

\* The search loop is cut after this many iterations (count is unbounded).
MaxCount == 12

\* The longest list of constraints a domain is compiled with.
MaxConstraints == 2

\* The longest list of actions an ActionPool is constructed from on its own.
MaxPool == 2

\* The widest BitMask an operation is called on by itself, and the longest
\* list all_union is called on.
MaxWidth == 2
MaxItems == 3

Positions == 0 .. (NumBits - 1)

(* --------------------------- integer bit fields ----------------------- *)

BitAnd(a, b) == a \cap b
BitOr(a, b) == a \cup b
BitXor(a, b) == (a \ b) \cup (b \ a)
BitNot(a) == Positions \ a
Zero == {}
Range(n) == 0 .. (n - 1)
Truthy(x) == x # Zero

(* ------------------------------ bitmask.py ---------------------------- *)

\* A constructor that stores the bits as given.
BitMask_raw(bits, mask, width) ==
    [bits |-> bits, mask |-> mask, width |-> width]

BitMask(bits, mask, width) ==
    [bits |-> BitAnd(bits, mask), mask |-> mask, width |-> width]

null(width) == BitMask(Zero, Zero, width)

eq(self, other) ==
    /\ self.mask = other.mask
    /\ self.bits = other.bits
    /\ self.width = other.width

hash(self) == self.bits

\* An add that never refuses.
add_raises_never(self, pos, bit, force) == FALSE

add_raises(self, pos, bit, force) ==
    /\ ~force
    /\ Truthy(BitAnd(pos, self.mask))
    /\ BitAnd(pos, self.bits) # BitAnd(pos, IF bit # 0 THEN BitNot(Zero) ELSE Zero)

add(self, pos, bit, force) ==
    LET bits == IF bit # 0 THEN BitOr(self.bits, pos)
                ELSE BitAnd(self.bits, BitNot(pos))
        mask == BitOr(self.mask, pos)
    IN  BitMask(bits, mask, self.width)

is_set(self, pos) == BitAnd(self.mask, pos)

all_set(self) == \A i \in Range(self.width) : Truthy(BitAnd(self.mask, {i}))

count_set(self) ==
    Cardinality({i \in Range(self.width) : Truthy(BitAnd(self.mask, {i}))})

is_null(self) == self.mask = Zero

known_and_matches(self, pos, bit) ==
    IF ~Truthy(is_set(self, pos)) THEN FALSE
    ELSE IF bit # 0 THEN Truthy(BitAnd(self.bits, pos))
    ELSE ~Truthy(BitAnd(self.bits, pos))

\* Only the bits that self has and other lacks.
conflicts_onesided(self, other) ==
    LET mask == BitAnd(self.mask, other.mask)
    IN  BitAnd(BitAnd(self.bits, mask), BitNot(other.bits))

conflicts(self, other) ==
    LET mask == BitAnd(self.mask, other.mask)
        my_bits == BitAnd(self.bits, mask)
        other_bits == BitAnd(other.bits, mask)
    IN  BitXor(my_bits, other_bits)

\* A test against the goal's bits as they are, not negated.
accomplishes_something_unnegated(self, goal) ==
    LET mask == BitAnd(self.mask, goal.mask)
    IN  BitXor(BitAnd(self.bits, mask), BitAnd(goal.bits, mask))

accomplishes_something(self, goal) ==
    LET mask == BitAnd(self.mask, goal.mask)
        my_bits == BitAnd(self.bits, mask)
        goal_bits == BitAnd(BitNot(goal.bits), mask)
    IN  BitXor(my_bits, goal_bits)

unset_from_action_raises(self, action_then, force) ==
    ~force /\ Truthy(conflicts(self, action_then))

unset_from_action(self, action_then) ==
    BitMask(self.bits, BitAnd(self.mask, BitNot(action_then.mask)), self.width)

difference(self, other) ==
    LET mask == BitAnd(self.mask, other.mask)
        diff == BitXor(BitAnd(self.bits, mask), BitAnd(other.bits, mask))
    IN  BitMask(self.bits, diff, self.width)

\* A reduction that drops every position other knows.
without_matching_known(self, other) ==
    BitMask(self.bits, BitAnd(self.mask, BitNot(other.mask)), self.width)

without_matching(self, other) ==
    LET matching_mask ==
            BitAnd(BitAnd(self.mask, other.mask),
                   BitXor(other.bits, BitNot(self.bits)))
        new_mask == BitAnd(self.mask, BitNot(matching_mask))
    IN  BitMask(self.bits, new_mask, self.width)

\* A combination in which the bits of previous win.
carry_forward_previous_wins(self, previous) ==
    LET combined_mask == BitOr(previous.mask, self.mask)
        bits == BitOr(previous.bits, BitAnd(self.bits, BitNot(previous.mask)))
    IN  BitMask(bits, combined_mask, self.width)

carry_forward(self, previous) ==
    LET combined_mask == BitOr(previous.mask, self.mask)
        carry_mask == BitXor(self.mask, combined_mask)
        bits1 == BitAnd(self.bits, BitOr(previous.bits, BitNot(carry_mask)))
        bits2 == BitOr(bits1, BitAnd(previous.bits, carry_mask))
    IN  BitMask(bits2, combined_mask, self.width)

satisfies(self, goal) ==
    LET our == BitAnd(self.mask, goal.mask)
    IN  IF Truthy(BitXor(our, goal.mask)) THEN FALSE
        ELSE ~Truthy(conflicts(self, goal))

\* Nothing is taken as satisfied by the action.
except_satisfied_by_keeps(self, action_results) == self

except_satisfied_by(self, action_results) ==
    LET satisfied0 == BitXor(action_results.bits, BitNot(self.bits))
        satisfied == BitAnd(BitAnd(satisfied0, self.mask), action_results.mask)
        new_mask == BitAnd(self.mask, BitNot(satisfied))
    IN  BitMask(self.bits, new_mask, self.width)

\* all_union without the test of the widths.
all_union_raises_conflicts_only(items) ==
    \E i \in 1 .. Len(items) : \E j \in (i + 1) .. Len(items) :
        Truthy(conflicts(items[i], items[j]))

\* all_union raises on the first conflicting or width-mismatched pair.
all_union_raises(items) ==
    \E i \in 1 .. Len(items) : \E j \in (i + 1) .. Len(items) :
        \/ Truthy(conflicts(items[i], items[j]))
        \/ items[i].width # items[j].width

RECURSIVE all_union_fold(_, _, _, _)
all_union_fold(items, k, mask, bits) ==
    IF k > Len(items) THEN [mask |-> mask, bits |-> bits]
    ELSE LET item == items[k]
             mask1 == BitOr(mask, item.mask)
             bits1 == BitOr(bits, BitAnd(item.mask, item.bits))
             bits2 == BitAnd(bits1, BitNot(BitAnd(item.mask, BitNot(item.bits))))
         IN  all_union_fold(items, k + 1, mask1, bits2)

\* The items are never empty where the planner calls it (width is the last item's).
all_union(items) ==
    LET r == all_union_fold(items, 1, Zero, Zero)
    IN  BitMask(r.bits, r.mask, items[Len(items)].width)

\* The exception all_union raises, "none" if it returns (on an empty list
\* there is no width to return).
all_union_exc(items) ==
    IF items = <<>> THEN "UnboundLocalError"
    ELSE IF all_union_raises(items) THEN "Exception"
    ELSE "none"

union_raises(self, other) == all_union_raises(<<self, other>>)
union(self, other) == all_union(<<self, other>>)


(* -------------------------------- text -------------------------------- *)

\* "not " (n, o, t, space) and the other characters the inputs use.
NOT_PREFIX == <<110, 111, 116, 32>>

startswith(s, prefix) ==
    /\ Len(s) >= Len(prefix)
    /\ SubSeq(s, 1, Len(prefix)) = prefix

\* s[4:]
slice4(s) == SubSeq(s, 5, Len(s))

\* Python's order of strings: lexicographic by character code.
RECURSIVE StrLess(_, _)
StrLess(a, b) ==
    IF b = <<>> THEN FALSE
    ELSE IF a = <<>> THEN TRUE
    ELSE IF a[1] # b[1] THEN a[1] < b[1]
    ELSE StrLess(Tail(a), Tail(b))

\* bit = 1; if s.startswith("not "): bit = 0; s = s[4:]
parse_polarity(s) ==
    IF startswith(s, NOT_PREFIX) THEN [bit |-> 0, name |-> slice4(s)]
    ELSE [bit |-> 1, name |-> s]

\* list.sort(key=...) is stable: an item moves left only past items whose key
\* is strictly greater. keys[i] is the key of item i; the result is the order
\* of the indices.
RECURSIVE insert_index(_, _, _)
insert_index(sorted, i, keys) ==
    IF sorted = <<>> THEN <<i>>
    ELSE IF StrLess(keys[i], keys[sorted[Len(sorted)]])
         THEN Append(insert_index(SubSeq(sorted, 1, Len(sorted) - 1), i, keys),
                     sorted[Len(sorted)])
         ELSE Append(sorted, i)

RECURSIVE sorted_indices(_, _)
sorted_indices(keys, n) ==
    IF n = 0 THEN <<>>
    ELSE insert_index(sorted_indices(keys, n - 1), n, keys)

list_sort(items, keys) ==
    LET idx == sorted_indices(keys, Len(items))
    IN  [k \in 1 .. Len(items) |-> items[idx[k]]]

\* string.ascii_uppercase and string.ascii_lowercase.
on_names == [i \in 1 .. 26 |-> 64 + i]
off_names == [i \in 1 .. 26 |-> 96 + i]

\* "-", "<", ">" and "BitMask ".
DASH == <<45>>
LT == <<60>>
GT == <<62>>
BITMASK_PREFIX == <<66, 105, 116, 77, 97, 115, 107, 32>>

\* The characters str.strip() removes (those below code 256).
WHITESPACE == {9, 10, 11, 12, 13, 28, 29, 30, 31, 32, 133, 160}

\* "c in name" for a character c.
char_in(c, name) == \E i \in 1 .. Len(name) : name[i] = c

RECURSIVE lstrip(_, _)
lstrip(s, chars) ==
    IF s # <<>> /\ s[1] \in chars THEN lstrip(Tail(s), chars) ELSE s

RECURSIVE rstrip(_, _)
rstrip(s, chars) ==
    IF s # <<>> /\ s[Len(s)] \in chars
    THEN rstrip(SubSeq(s, 1, Len(s) - 1), chars) ELSE s

\* s.strip(chars)
strip(s, chars) == rstrip(lstrip(s, chars), chars)

\* The first lines of from_string: the text between the brackets.
from_string_text(s) ==
    LET body == strip(strip(s, {LT[1]}), {GT[1]})
        rest == IF startswith(body, BITMASK_PREFIX)
                THEN SubSeq(body, Len(BITMASK_PREFIX) + 1, Len(body))
                ELSE body
    IN  strip(rest, WHITESPACE)

\* from_string raises on a character that is no dash and no letter.
from_string_raises(s) ==
    LET t == from_string_text(s)
    IN  \E i \in 1 .. Len(t) :
            /\ t[i] # DASH[1]
            /\ ~char_in(t[i], on_names)
            /\ ~char_in(t[i], off_names)

from_string(s) ==
    LET t == from_string_text(s)
        width == Len(t)
        mask == { i \in Range(width) : t[i + 1] # DASH[1] }
        bits == { i \in Range(width) :
                    t[i + 1] # DASH[1] /\ char_in(t[i + 1], on_names) }
    IN  BitMask(bits, mask, width)

\* A mask_str that spells every known position in upper case.
mask_str_upper(self) ==
    [k \in 1 .. self.width |->
        IF Truthy(BitAnd(self.mask, {k - 1}))
        THEN on_names[((k - 1) % Len(on_names)) + 1]
        ELSE DASH[1]]

mask_str(self) ==
    [k \in 1 .. self.width |->
        LET pos == {k - 1}
            letter_pos == (k - 1) % Len(on_names)
        IN  IF Truthy(BitAnd(self.mask, pos))
            THEN IF Truthy(BitAnd(self.bits, pos))
                 THEN on_names[letter_pos + 1]
                 ELSE off_names[letter_pos + 1]
            ELSE DASH[1]]

(* ----------------------- domain.py: compilation ----------------------- *)

NoInfo == [kind |-> "none"]
Ok(v) == [exc |-> "none", val |-> v, info |-> NoInfo]
Raise(kind, info) == [exc |-> kind, val |-> <<>>, info |-> info]

\* States left in the order they came in.
sort_states_unsorted(states) == states

\* self.states.sort(key=lambda x: x.name)
sort_states(states) == list_sort(states, states)

\* self.actions.sort(key=lambda x: x.action)
sort_actions(actions) ==
    list_sort(actions, [i \in 1 .. Len(actions) |-> actions[i].action])

\* The names an action list mentions, "not " stripped.
implied_states(actions) ==
    UNION { { parse_polarity((actions[i].must \o actions[i].then)[k]).name :
                k \in 1 .. (Len(actions[i].must) + Len(actions[i].then)) } :
            i \in 1 .. Len(actions) }

\* The orders in which a Python set of these names may be iterated.
iteration_orders(names) ==
    { o \in [1 .. Cardinality(names) -> names] :
        \A i, j \in 1 .. Cardinality(names) : i # j => o[i] # o[j] }

\* self.states: the given states, or the implied ones in the set's iteration
\* order, then sorted by name.
domain_states(raw, order) ==
    sort_states(IF raw.states # <<>> THEN raw.states ELSE order)

\* dict((state.name, state.bit) ...): 1 << i of the last state with the name.
state_bits_of(states) ==
    [name \in {states[i] : i \in 1 .. Len(states)} |->
        LET last == CHOOSE i \in 1 .. Len(states) :
                        /\ states[i] = name
                        /\ \A j \in (i + 1) .. Len(states) : states[j] # name
        IN  {last - 1}]

\* The inner loop of apply_constraints over constraint.then, from item k.
RECURSIVE apply_then(_, _, _, _, _)
apply_then(state_bits, width, constraint, k, init_state) ==
    IF k > Len(constraint.then) THEN Ok(init_state)
    ELSE LET lit == parse_polarity(constraint.then[k])
         IN  IF lit.name \notin DOMAIN state_bits
             THEN Raise("KeyError", NoInfo)
             ELSE LET then_bit_pos == state_bits[lit.name]
                  IN  IF add_raises(init_state, then_bit_pos, lit.bit, FALSE)
                      THEN Raise("IncompatibleConstraints",
                                 [kind |-> "IncompatibleConstraints",
                                  constraint |-> constraint,
                                  init_state |-> init_state,
                                  then_state |-> lit.name,
                                  then_mask |-> add(null(width), then_bit_pos,
                                                    lit.bit, FALSE),
                                  action |-> <<>>])
                      ELSE apply_then(state_bits, width, constraint, k + 1,
                                      add(init_state, then_bit_pos, lit.bit, FALSE))

\* apply_constraints from constraint c on: one pass in declaration order.
RECURSIVE apply_constraints_from(_, _, _, _, _)
apply_constraints_from(constraints, state_bits, width, c, init_state) ==
    IF c > Len(constraints) THEN Ok(init_state)
    ELSE LET constraint == constraints[c]
             lit == parse_polarity(constraint.state)
         IN  IF lit.name \notin DOMAIN state_bits
             THEN Raise("KeyError", NoInfo)
             ELSE IF known_and_matches(init_state, state_bits[lit.name], lit.bit)
             THEN LET r == apply_then(state_bits, width, constraint, 1, init_state)
                  IN  IF r.exc # "none" THEN r
                      ELSE apply_constraints_from(constraints, state_bits, width,
                                                  c + 1, r.val)
             ELSE apply_constraints_from(constraints, state_bits, width,
                                         c + 1, init_state)

\* A propagation that makes a second pass over the constraints.
apply_constraints_twice(constraints, state_bits, width, init_state) ==
    LET once == apply_constraints_from(constraints, state_bits, width, 1, init_state)
    IN  IF once.exc # "none" THEN once
        ELSE apply_constraints_from(constraints, state_bits, width, 1, once.val)

apply_constraints(constraints, state_bits, width, init_state) ==
    apply_constraints_from(constraints, state_bits, width, 1, init_state)

\* The loops "for must in action.must" / "for then in action.then": add each
\* named bit at its polarity, from item k.
RECURSIVE add_literals(_, _, _, _)
add_literals(state_bits, lits, k, bits) ==
    IF k > Len(lits) THEN Ok(bits)
    ELSE LET lit == parse_polarity(lits[k])
         IN  IF lit.name \notin DOMAIN state_bits
             THEN Raise("KeyError", NoInfo)
             ELSE IF add_raises(bits, state_bits[lit.name], lit.bit, FALSE)
             THEN Raise("IncompatibleAdd", NoInfo)
             ELSE add_literals(state_bits, lits, k + 1,
                               add(bits, state_bits[lit.name], lit.bit, FALSE))

\* A compilation that keeps the preconditions as declared when their
\* propagation fails.
compile_action_lenient(constraints, state_bits, width, action) ==
    LET m1 == add_literals(state_bits, action.must, 1, null(width))
        m2 == apply_constraints(constraints, state_bits, width, m1.val)
        must_bits == IF m2.exc = "none" THEN m2.val ELSE m1.val
        t1 == add_literals(state_bits, action.then, 1, null(width))
        t2 == apply_constraints(constraints, state_bits, width, t1.val)
    IN  IF m1.exc # "none" THEN m1
        ELSE IF t1.exc # "none" THEN t1
        ELSE IF t2.exc # "none" THEN t2
        ELSE Ok([action |-> action.action,
                 must |-> action.must,
                 then |-> action.then,
                 must_bits |-> must_bits,
                 then_bits |-> carry_forward(t2.val, must_bits)])

\* A compilation whose then_bits are the propagated effects alone.
compile_action_effects_only(constraints, state_bits, width, action) ==
    LET m1 == add_literals(state_bits, action.must, 1, null(width))
        m2 == apply_constraints(constraints, state_bits, width, m1.val)
        t1 == add_literals(state_bits, action.then, 1, null(width))
        t2 == apply_constraints(constraints, state_bits, width, t1.val)
    IN  IF m1.exc # "none" THEN m1
        ELSE IF m2.exc # "none" THEN m2
        ELSE IF t1.exc # "none" THEN t1
        ELSE IF t2.exc = "IncompatibleConstraints"
             THEN Raise(t2.exc, [t2.info EXCEPT !.action = <<action.action>>])
        ELSE IF t2.exc # "none" THEN t2
        ELSE Ok([action |-> action.action,
                 must |-> action.must,
                 then |-> action.then,
                 must_bits |-> m2.val,
                 then_bits |-> t2.val])

\* The body of "for action in self.actions" of ConcreteDomain.__init__: the
\* action's must_bits and then_bits. A constraint conflict over the effects is
\* re-raised with the action attached; one over the preconditions is not caught.
compile_action(constraints, state_bits, width, action) ==
    LET m1 == add_literals(state_bits, action.must, 1, null(width))
        m2 == apply_constraints(constraints, state_bits, width, m1.val)
        t1 == add_literals(state_bits, action.then, 1, null(width))
        t2 == apply_constraints(constraints, state_bits, width, t1.val)
    IN  IF m1.exc # "none" THEN m1
        ELSE IF m2.exc # "none" THEN m2
        ELSE IF t1.exc # "none" THEN t1
        ELSE IF t2.exc = "IncompatibleConstraints"
             THEN Raise(t2.exc, [t2.info EXCEPT !.action = <<action.action>>])
        ELSE IF t2.exc # "none" THEN t2
        ELSE Ok([action |-> action.action,
                 must |-> action.must,
                 then |-> action.then,
                 must_bits |-> m2.val,
                 then_bits |-> carry_forward(t2.val, m2.val)])

RECURSIVE compile_actions(_, _, _, _, _, _)
compile_actions(constraints, state_bits, width, actions, k, done) ==
    IF k > Len(actions) THEN Ok(done)
    ELSE LET r == compile_action(constraints, state_bits, width, actions[k])
         IN  IF r.exc # "none" THEN r
             ELSE compile_actions(constraints, state_bits, width, actions, k + 1,
                                  Append(done, r.val))

\* A mutex test without its last check.
is_mutex_three(self, other_action) ==
    \/ Truthy(conflicts(self.must_bits, other_action.must_bits))
    \/ Truthy(conflicts(self.then_bits, other_action.then_bits))
    \/ Truthy(conflicts(self.must_bits, other_action.then_bits))

is_mutex(self, other_action) ==
    IF Truthy(conflicts(self.must_bits, other_action.must_bits)) THEN TRUE
    ELSE IF Truthy(conflicts(self.then_bits, other_action.then_bits)) THEN TRUE
    ELSE IF Truthy(conflicts(self.must_bits, other_action.then_bits)) THEN TRUE
    ELSE IF Truthy(conflicts(self.then_bits, other_action.must_bits)) THEN TRUE
    ELSE FALSE

\* No action excludes another.
mutex_of_none(actions, i) == {}

\* action.mutex, as the set of the indices (in self.actions) of its members.
mutex_of(actions, i) ==
    { j \in 1 .. Len(actions) : j # i /\ is_mutex(actions[i], actions[j]) }

\* ConcreteDomain.__init__ on the expanded lists: the domain, or the exception.
\* order is the iteration order of the set of implied states.
ConcreteDomain(raw, order) ==
    LET states == domain_states(raw, order)
        width == Len(states)
        state_bits == state_bits_of(states)
        sorted == sort_actions(raw.actions)
        r == compile_actions(raw.constraints, state_bits, width, sorted, 1, <<>>)
    IN  IF r.exc # "none" THEN r
        ELSE Ok([states |-> states,
                 state_bits |-> state_bits,
                 constraints |-> raw.constraints,
                 null |-> null(width),
                 actions |-> [i \in 1 .. Len(r.val) |->
                                 [action |-> r.val[i].action,
                                  must |-> r.val[i].must,
                                  then |-> r.val[i].then,
                                  must_bits |-> r.val[i].must_bits,
                                  then_bits |-> r.val[i].then_bits,
                                  mutex |-> mutex_of(r.val, i)]]])

(* ------------------- domain.py: pools and sequences ------------------- *)

\* A pool holds its actions as their indices in domain.actions (object
\* identity in the source).
GoalPool(goal) ==
    [kind |-> "GoalPool",
     actions |-> <<>>,
     must_bits |-> goal,
     then_bits |-> null(goal.width)]

\* The exception ActionPool.__init__ raises, "none" if it returns: a failed
\* assertion over a pair of members, or all_union over the members' must_bits
\* or then_bits (which, on an empty list, has no width to return).
ActionPool_exc(domain, actions) ==
    IF \E i \in 1 .. Len(actions) : \E j \in (i + 1) .. Len(actions) :
          \/ actions[i] = actions[j]
          \/ actions[j] \in domain.actions[actions[i]].mutex
          \/ actions[i] \in domain.actions[actions[j]].mutex
    THEN "AssertionError"
    ELSE IF actions = <<>> THEN "UnboundLocalError"
    ELSE IF \/ all_union_raises([k \in 1 .. Len(actions) |->
                                    domain.actions[actions[k]].must_bits])
            \/ all_union_raises([k \in 1 .. Len(actions) |->
                                    domain.actions[actions[k]].then_bits])
    THEN "Exception"
    ELSE "none"

ActionPool(domain, actions) ==
    [kind |-> "ActionPool",
     actions |-> actions,
     must_bits |-> all_union([k \in 1 .. Len(actions) |->
                                 domain.actions[actions[k]].must_bits]),
     then_bits |-> all_union([k \in 1 .. Len(actions) |->
                                 domain.actions[actions[k]].then_bits])]

\* The first loop of ActionSequence.__init__, "for action in reversed(actions)",
\* at pool k with the must_bits computed so far.
RECURSIVE sequence_must(_, _, _)
sequence_must(actions, k, must_bits) ==
    IF k = 0 THEN Ok(must_bits)
    ELSE LET action == actions[k]
             current_must_bits == except_satisfied_by(must_bits, action.then_bits)
         IN  IF Truthy(conflicts(action.then_bits, must_bits))
             THEN Raise("AssertionError", NoInfo)
             ELSE IF Truthy(conflicts(action.must_bits, current_must_bits))
             THEN Raise("AssertionError", NoInfo)
             ELSE IF union_raises(action.must_bits, current_must_bits)
             THEN Raise("Exception", NoInfo)
             ELSE sequence_must(actions, k - 1,
                                union(action.must_bits, current_must_bits))

\* A forward scan in which the earlier pool keeps its bits.
RECURSIVE sequence_then_first_wins(_, _, _)
sequence_then_first_wins(actions, k, then_bits) ==
    IF k > Len(actions) THEN Ok(then_bits)
    ELSE IF Truthy(conflicts(actions[k].must_bits, then_bits))
    THEN Raise("AssertionError", NoInfo)
    ELSE sequence_then_first_wins(actions, k + 1,
                                  carry_forward(then_bits, actions[k].then_bits))

\* The second loop, "for action in actions", at pool k.
RECURSIVE sequence_then(_, _, _)
sequence_then(actions, k, then_bits) ==
    IF k > Len(actions) THEN Ok(then_bits)
    ELSE LET action == actions[k]
         IN  IF Truthy(conflicts(action.must_bits, then_bits))
             THEN Raise("AssertionError", NoInfo)
             ELSE sequence_then(actions, k + 1,
                                carry_forward(action.then_bits, then_bits))

ActionSequence(actions, null_bits) ==
    LET m == sequence_must(actions, Len(actions), null_bits)
        t == sequence_then(actions, 1, null_bits)
    IN  IF m.exc # "none" THEN m
        ELSE IF t.exc # "none" THEN t
        ELSE Ok([actions |-> actions,
                 null |-> null_bits,
                 must_bits |-> m.val,
                 then_bits |-> t.val])

with_prepend(self, action) == ActionSequence(<<action>> \o self.actions, self.null)

RECURSIVE action_count_from(_, _)
action_count_from(pools, k) ==
    IF k > Len(pools) THEN 0
    ELSE Len(pools[k].actions) + action_count_from(pools, k + 1)

action_count(self) == action_count_from(self.actions, 1)

(* ------------- domain.py: candidate actions, pools, scores ------------ *)

\* A candidate test that lets an action undo a goal bit.
strictly_accomplishes_lax(action, goal) ==
    LET important_then_bits == without_matching(action.then_bits, action.must_bits)
    IN  Truthy(accomplishes_something(important_then_bits, goal))

\* A candidate test that counts the effects the action already requires.
strictly_accomplishes_carried(action, goal) ==
    /\ ~Truthy(conflicts(action.then_bits, goal))
    /\ Truthy(accomplishes_something(action.then_bits, goal))
    /\ ~Truthy(conflicts(unset_from_action(action.must_bits, action.then_bits),
                         goal))

\* The test of strict_accomplishment_actions on one action.
strictly_accomplishes(action, goal) ==
    LET important_then_bits == without_matching(action.then_bits, action.must_bits)
    IN  /\ ~Truthy(conflicts(action.then_bits, goal))
        /\ Truthy(accomplishes_something(important_then_bits, goal))
        /\ ~Truthy(conflicts(unset_from_action(action.must_bits, action.then_bits),
                             goal))

\* The indices of the candidate actions, in the order of domain.actions.
RECURSIVE strict_accomplishment_actions_from(_, _, _)
strict_accomplishment_actions_from(domain, goal, k) ==
    IF k > Len(domain.actions) THEN <<>>
    ELSE (IF strictly_accomplishes(domain.actions[k], goal) THEN <<k>> ELSE <<>>)
         \o strict_accomplishment_actions_from(domain, goal, k + 1)

\* Every action is a candidate.
strict_accomplishment_actions_all(domain, goal) ==
    [k \in 1 .. Len(domain.actions) |-> k]

strict_accomplishment_actions(domain, goal) ==
    strict_accomplishment_actions_from(domain, goal, 1)

\* "not any(next_action in included.mutex for included in included_actions)"
compatible(domain, included_actions, next_action) ==
    ~\E k \in 1 .. Len(included_actions) :
        next_action \in domain.actions[included_actions[k]].mutex

\* A grouping that never leaves out an action it can take.
RECURSIVE group_actions_greedy(_, _, _, _)
group_actions_greedy(domain, included_actions, possible_actions, remaining_goal) ==
    IF possible_actions = <<>> THEN Ok(<<>>)
    ELSE LET next_action == possible_actions[1]
             rest_actions == Tail(possible_actions)
             next_then == domain.actions[next_action].then_bits
         IN  IF /\ compatible(domain, included_actions, next_action)
                /\ Truthy(accomplishes_something(next_then, remaining_goal))
             THEN LET next_included == Append(included_actions, next_action)
                      with == group_actions_greedy(
                                  domain, next_included, rest_actions,
                                  unset_from_action(remaining_goal, next_then))
                  IN  IF with.exc # "none" THEN with
                      ELSE Ok(<<ActionPool(domain, next_included)>> \o with.val)
             ELSE group_actions_greedy(domain, included_actions, rest_actions,
                                       remaining_goal)

\* The generator group_actions, run to its end: the pools it yields, in order,
\* or the exception it raises.
RECURSIVE group_actions(_, _, _, _)
group_actions(domain, included_actions, possible_actions, remaining_goal) ==
    IF possible_actions = <<>> THEN Ok(<<>>)
    ELSE LET next_action == possible_actions[1]
             rest_actions == Tail(possible_actions)
             next_then == domain.actions[next_action].then_bits
             without == group_actions(domain, included_actions, rest_actions,
                                      remaining_goal)
         IN  IF /\ compatible(domain, included_actions, next_action)
                /\ Truthy(accomplishes_something(next_then, remaining_goal))
             THEN LET next_remaining == unset_from_action(remaining_goal, next_then)
                      next_included == Append(included_actions, next_action)
                      with == group_actions(domain, next_included, rest_actions,
                                            next_remaining)
                  IN  IF unset_from_action_raises(remaining_goal, next_then, FALSE)
                      THEN Raise("AssertionError", NoInfo)
                      ELSE IF ActionPool_exc(domain, next_included) # "none"
                      THEN Raise(ActionPool_exc(domain, next_included), NoInfo)
                      ELSE IF with.exc # "none" THEN with
                      ELSE IF without.exc # "none" THEN without
                      ELSE Ok(<<ActionPool(domain, next_included)>>
                              \o with.val \o without.val)
             ELSE without

strict_accomplishment_pools(domain, goal) ==
    IF is_null(goal) THEN Raise("AssertionError", NoInfo)
    ELSE group_actions(domain, <<>>, strict_accomplishment_actions(domain, goal), goal)

\* score_accomplishment_pool on a sequence (which has action_count) with a
\* start state: the exception it raises ("none" if it returns), and its value.
score_exc(pool, goal, start) ==
    IF unset_from_action_raises(goal, pool.then_bits, FALSE) THEN "AssertionError"
    ELSE IF all_union_raises(<<unset_from_action(goal, pool.then_bits),
                               pool.must_bits>>)
    THEN "Exception"
    ELSE "none"

\* A score whose last item does not count the actions.
score_accomplishment_pool_uncounted(pool, goal, start) ==
    LET remaining == unset_from_action(goal, pool.then_bits)
        union_bits == all_union(<<remaining, pool.must_bits>>)
    IN  <<count_set(remaining), count_set(union_bits),
          count_set(difference(start, union_bits)), 0>>

score_accomplishment_pool(pool, goal, start) ==
    LET remaining == unset_from_action(goal, pool.then_bits)
        requirement == pool.must_bits
        union_bits == all_union(<<remaining, requirement>>)
        start_score == count_set(difference(start, union_bits))
        count_score == action_count(pool)
    IN  <<count_set(remaining), count_set(union_bits), start_score, count_score>>

\* Python's order of tuples of integers.
RECURSIVE TupleLess(_, _)
TupleLess(a, b) ==
    IF b = <<>> THEN FALSE
    ELSE IF a = <<>> THEN TRUE
    ELSE IF a[1] # b[1] THEN a[1] < b[1]
    ELSE TupleLess(Tail(a), Tail(b))

\* An insertion that puts the item before the items of its score.
RECURSIVE frontier_insert_before_ties(_, _)
frontier_insert_before_ties(sorted, item) ==
    IF sorted = <<>> THEN <<item>>
    ELSE IF ~TupleLess(sorted[Len(sorted)].score, item.score)
         THEN Append(frontier_insert_before_ties(
                         SubSeq(sorted, 1, Len(sorted) - 1), item),
                     sorted[Len(sorted)])
         ELSE Append(sorted, item)

\* frontier.sort(key=lambda x: x[1]): stable.
RECURSIVE frontier_insert(_, _)
frontier_insert(sorted, item) ==
    IF sorted = <<>> THEN <<item>>
    ELSE IF TupleLess(item.score, sorted[Len(sorted)].score)
         THEN Append(frontier_insert(SubSeq(sorted, 1, Len(sorted) - 1), item),
                     sorted[Len(sorted)])
         ELSE Append(sorted, item)

RECURSIVE frontier_sort(_)
frontier_sort(frontier) ==
    IF frontier = <<>> THEN <<>>
    ELSE frontier_insert(frontier_sort(SubSeq(frontier, 1, Len(frontier) - 1)),
                         frontier[Len(frontier)])

(* ---------------------- domain.py: Problem.solve ---------------------- *)

\* ProblemLog.__init__
ProblemLog ==
    [seen_count |-> 0, skipped_count |-> 0, total_count |-> 0,
     expansions |-> 0, goal_tests |-> 0, new_nodes |-> 0,
     activity |-> <<>>]

\* Problem.__init__: the search state of a problem on which solve has not run.
\* pc is the place of the run: "new", "loop" (at the test of the while loop),
\* "returned" or "raised" ("unset" while there is no problem).
Problem ==
    [pc |-> "new", has_solution |-> "None", returned |-> <<>>, exc |-> "none",
     frontier |-> <<>>, seen |-> {}, count |-> 0,
     popped |-> -1, best |-> <<>>, branch |-> "none",
     log |-> ProblemLog]

\* Lines 541-550 of solve: the frontier holds the goal-only sequence.
solve_begin(r, domain, start, goal) ==
    LET blank == ActionSequence(<<GoalPool(goal)>>, domain.null)
    IN  IF blank.exc # "none"
        THEN [r EXCEPT !.pc = "raised", !.exc = blank.exc]
        ELSE IF score_exc(blank.val, goal, start) # "none"
        THEN [r EXCEPT !.pc = "raised", !.exc = score_exc(blank.val, goal, start)]
        ELSE [r EXCEPT !.pc = "loop",
                       !.log = ProblemLog,
                       !.seen = {},
                       !.count = 0,
                       !.frontier =
                           <<[seq |-> blank.val,
                              score |-> score_accomplishment_pool(blank.val, goal,
                                                                  start)]>>]

\* A search that is purely best-first.
pop_index_first(seen, count, frontier) == 0

\* "if seen and not count % 5": the index popped in iteration count.
pop_index(seen, count, frontier) ==
    IF seen # {} /\ count % 5 = 0 THEN Len(frontier) \div 2 ELSE 0

\* A pop that leaves the element in the frontier.
pop_rest_keeps(frontier, i) == frontier

\* frontier.pop(i), i counted from 0: the frontier left.
pop_rest(frontier, i) ==
    SubSeq(frontier, 1, i) \o SubSeq(frontier, i + 2, Len(frontier))

\* A search without memoization.
already_seen_never(must_bits, seen) == FALSE

\* "best.must_bits in seen"
already_seen(must_bits, seen) == must_bits \in seen

\* A goal test that forgets the start state.
goal_test_no_start(best, start, goal) == satisfies(best.then_bits, goal)

\* A goal test that also passes when the start state satisfies the goal.
goal_test_start_suffices(best, start, goal) ==
    \/ satisfies(start, goal)
    \/ /\ ~Truthy(conflicts(start, best.must_bits))
       /\ satisfies(best.then_bits, goal)

\* "not self.start_state.conflicts(best.must_bits) and
\*  best.then_bits.satisfies(self.goal)"
goal_test(best, start, goal) ==
    /\ ~Truthy(conflicts(start, best.must_bits))
    /\ satisfies(best.then_bits, goal)

\* The state of the run after "count += 1", pick_frontier and the pop.
popped_state(r) ==
    LET count == r.count + 1
        i == pop_index(r.seen, count, r.frontier)
    IN  [r EXCEPT !.count = count,
                  !.popped = i,
                  !.best = r.frontier[i + 1],
                  !.frontier = pop_rest(r.frontier, i),
                  !.log.total_count = @ + 1,
                  !.log.activity =
                      Append(@, [type |-> "pick_frontier",
                                 length |-> Len(r.frontier)])]

\* The branch "if best.must_bits in seen: ... continue", from the popped state.
skip_step(p) ==
    [p EXCEPT !.branch = "skip",
              !.log.skipped_count = @ + 1,
              !.log.activity =
                  Append(@, [type |-> "skip_already_seen",
                             action |-> p.best.seq,
                             score |-> p.best.score])]

\* Lines 562-589: the sequence is marked seen and counted as a goal test.
attempt_state(p) ==
    [p EXCEPT !.seen = @ \cup {p.best.seq.must_bits},
              !.log.seen_count = @ + 1,
              !.log.goal_tests = @ + 1,
              !.log.activity =
                  Append(@, [type |-> "attempt_solution",
                             action |-> p.best.seq,
                             score |-> p.best.score,
                             alternative_count |-> Len(p.frontier)])]

\* Lines 591-594: the sequence is the plan.
solution_step(p) ==
    LET a == attempt_state(p)
    IN  [a EXCEPT !.branch = "solution",
                  !.pc = "returned",
                  !.has_solution = "True",
                  !.returned = <<p.best.seq>>,
                  !.log.activity =
                      Append(@, [type |-> "solution",
                                 action |-> p.best.seq,
                                 remaining_count |-> Len(a.frontier),
                                 expansions |-> Cardinality(a.seen)])]

\* "[best.with_prepend(pool) for pool in ...]", from pool k.
RECURSIVE prepend_all(_, _, _)
prepend_all(best, pools, k) ==
    IF k > Len(pools) THEN Ok(<<>>)
    ELSE LET seq == with_prepend(best, pools[k])
             rest == prepend_all(best, pools, k + 1)
         IN  IF seq.exc # "none" THEN seq
             ELSE IF rest.exc # "none" THEN rest
             ELSE Ok(<<seq.val>> \o rest.val)

\* "[(seq, score(seq)) for seq in new_seqs if seq.must_bits not in seen]",
\* from sequence k.
RECURSIVE scored_unseen(_, _, _, _, _)
scored_unseen(new_seqs, seen, goal, start, k) ==
    IF k > Len(new_seqs) THEN Ok(<<>>)
    ELSE LET seq == new_seqs[k]
             rest == scored_unseen(new_seqs, seen, goal, start, k + 1)
         IN  IF already_seen(seq.must_bits, seen) THEN rest
             ELSE IF score_exc(seq, goal, start) # "none"
             THEN Raise(score_exc(seq, goal, start), NoInfo)
             ELSE IF rest.exc # "none" THEN rest
             ELSE Ok(<<[seq |-> seq,
                        score |-> score_accomplishment_pool(seq, goal, start)]>>
                     \o rest.val)

\* An expansion that counts as new nodes only the sequences it inserts.
expand_step_counts_inserted(p, domain, start, goal) ==
    LET a == attempt_state(p)
        best == p.best.seq
        pools == strict_accomplishment_pools(domain, best.must_bits)
        new_seqs == prepend_all(best, pools.val, 1)
        items == scored_unseen(new_seqs.val, a.seen, goal, start, 1)
        failed(exc) == [a EXCEPT !.branch = "expand", !.pc = "raised", !.exc = exc]
    IN  IF pools.exc # "none" THEN failed(pools.exc)
        ELSE IF new_seqs.exc # "none" THEN failed(new_seqs.exc)
        ELSE IF items.exc # "none" THEN failed(items.exc)
        ELSE [a EXCEPT !.branch = "expand",
                       !.log.expansions = @ + 1,
                       !.log.new_nodes = @ + Len(items.val),
                       !.log.activity =
                           IF new_seqs.val = <<>>
                           THEN Append(@, [type |-> "no_accomplishments",
                                           action |-> best])
                           ELSE @,
                       !.frontier = frontier_sort(@ \o items.val)]

\* Lines 595-614: the expansion of best, or the exception it raises.
expand_step(p, domain, start, goal) ==
    LET a == attempt_state(p)
        best == p.best.seq
        pools == strict_accomplishment_pools(domain, best.must_bits)
        new_seqs == prepend_all(best, pools.val, 1)
        items == scored_unseen(new_seqs.val, a.seen, goal, start, 1)
        failed(exc) == [a EXCEPT !.branch = "expand", !.pc = "raised", !.exc = exc]
    IN  IF pools.exc # "none" THEN failed(pools.exc)
        ELSE IF new_seqs.exc # "none" THEN failed(new_seqs.exc)
        ELSE IF items.exc # "none" THEN failed(items.exc)
        ELSE [a EXCEPT !.branch = "expand",
                       !.log.expansions = @ + 1,
                       !.log.new_nodes = @ + Len(new_seqs.val),
                       !.log.activity =
                           IF new_seqs.val = <<>>
                           THEN Append(@, [type |-> "no_accomplishments",
                                           action |-> best])
                           ELSE @,
                       !.frontier = frontier_sort(@ \o items.val)]

\* Lines 615-617: the loop ended with the frontier empty.
no_solution_step(r) ==
    [r EXCEPT !.pc = "returned",
              !.has_solution = "False",
              !.returned = <<>>,
              !.log.activity = Append(@, [type |-> "no_solution"])]

\* Which branch the iteration that starts in r takes.
branch_of(r, start, goal) ==
    LET p == popped_state(r)
    IN  IF already_seen(p.best.seq.must_bits, p.seen) THEN "skip"
        ELSE IF goal_test(p.best.seq, start, goal) THEN "solution"
        ELSE "expand"

\* One step of solve from r: the lines before the loop, one iteration of the
\* loop, or the lines after it.
run_step(r, domain, start, goal) ==
    IF r.pc = "new" THEN solve_begin(r, domain, start, goal)
    ELSE IF r.frontier = <<>> THEN no_solution_step(r)
    ELSE IF branch_of(r, start, goal) = "skip" THEN skip_step(popped_state(r))
    ELSE IF branch_of(r, start, goal) = "solution"
    THEN solution_step(popped_state(r))
    ELSE expand_step(popped_state(r), domain, start, goal)

(* ------------------------------- inputs ------------------------------- *)

\* State names "p", "q", "r".
P == <<112>>
Q == <<113>>
R == <<114>>
Not(name) == NOT_PREFIX \o name

\* The actions the domains are drawn from, in their order of declaration:
\*   go   : must p      then not p, q        (the scenario of the spec)
\*   back : must not p  then p
\*   fill : must not q  then q
\*   jump : must not p  then q
\*   drop : must r      then not p, r
ActionCatalog ==
    << [action |-> <<103, 111>>, must |-> <<P>>, then |-> <<Not(P), Q>>],
       [action |-> <<98, 97, 99, 107>>, must |-> <<Not(P)>>, then |-> <<P>>],
       [action |-> <<102, 105, 108, 108>>, must |-> <<Not(Q)>>, then |-> <<Q>>],
       [action |-> <<106, 117, 109, 112>>, must |-> <<Not(P)>>, then |-> <<Q>>],
       [action |-> <<100, 114, 111, 112>>, must |-> <<R>>, then |-> <<Not(P), R>> ] >>

\* The sub-lists of a list that keep at most n items, in the list's order.
RECURSIVE sublists(_, _)
sublists(list, n) ==
    IF list = <<>> \/ n = 0 THEN {<<>>}
    ELSE sublists(Tail(list), n)
         \cup { <<list[1]>> \o l : l \in sublists(Tail(list), n - 1) }

\* The inputs of the search: no states given (they are implied) or all three
\* given out of order; no constraint or "p implies not r".
SolveInputs ==
    [states : {<<>>, <<R, Q, P>>},
     constraints : {<<>>, <<[state |-> P, then |-> <<Not(R)>>]>>},
     actions : sublists(ActionCatalog, MaxActions)]

\* The catalog with one more action:
\*   both : must p, q   then r
CompileCatalog ==
    <<[action |-> <<98, 111, 116, 104>>, must |-> <<P, Q>>, then |-> <<R>>]>>
    \o ActionCatalog

\* The constraints the domains are drawn from: p implies not q (the scenario
\* of the spec), q implies r, r implies p, p implies not r.
ConstraintCatalog ==
    << [state |-> P, then |-> <<Not(Q)>>],
       [state |-> Q, then |-> <<R>>],
       [state |-> R, then |-> <<P>>],
       [state |-> P, then |-> <<Not(R)>>] >>

\* The lists of at most n different items of a list, in every order.
RECURSIVE arrangements(_, _)
arrangements(list, n) ==
    IF n = 0 THEN {<<>>}
    ELSE {<<>>} \cup
         UNION { { <<list[i]>> \o l :
                     l \in arrangements(SubSeq(list, 1, i - 1)
                                        \o SubSeq(list, i + 1, Len(list)),
                                        n - 1) } :
                 i \in 1 .. Len(list) }

\* The inputs of compilation on its own.
DomainInputs ==
    [states : {<<>>, <<R, Q, P>>},
     constraints : arrangements(ConstraintCatalog, MaxConstraints),
     actions : sublists(CompileCatalog, MaxActions)]

\* The lists of at most n indices into a list of k actions.
RECURSIVE index_lists(_, _)
index_lists(k, n) ==
    IF n = 0 THEN {<<>>}
    ELSE {<<>>} \cup { <<i>> \o l : i \in 1 .. k, l \in index_lists(k, n - 1) }

\* Every BitMask of a width, and those with every bit known.
BitMasks(width) ==
    { BitMask(b, m, width) : b \in SUBSET Range(width), m \in SUBSET Range(width) }

CompleteBitMasks(width) ==
    { BitMask(b, Range(width), width) : b \in SUBSET Range(width) }

(* ---------------------------- the search ------------------------------ *)

\* raw: the lists handed to ConcreteDomain; built: what its constructor gave
\* (the domain or the exception); start_state, goal, run: a Problem and its
\* solve(); built2, run2: a second, separately compiled domain and its solve();
\* call: the last call of a function on its own.
VARIABLES raw, built, start_state, goal, run, built2, run2, call

vars == <<raw, built, start_state, goal, run, built2, run2, call>>

domain == built.val

NoCall == [op |-> "none"]
NotBuilt == [exc |-> "pending", val |-> <<>>, info |-> NoInfo]

NoInput == [states |-> <<>>, constraints |-> <<>>, actions |-> <<>>]
NoProblem == [Problem EXCEPT !.pc = "unset"]

\* Nothing has been compiled and no problem posed.
Init ==
    /\ raw = NoInput
    /\ built = NotBuilt
    /\ start_state = null(0)
    /\ goal = null(0)
    /\ run = NoProblem
    /\ built2 = NotBuilt
    /\ run2 = NoProblem
    /\ call = NoCall

\* ConcreteDomain(...) returns a domain, and Problem(domain, start, goal) is
\* built over it with a complete start state and a goal of the domain's width.
CreateProblem ==
    /\ run.pc = "unset"
    /\ built = NotBuilt
    /\ raw' \in SolveInputs
    /\ \E order \in iteration_orders(implied_states(raw'.actions)) :
          built' = ConcreteDomain(raw', order)
    /\ built'.exc = "none"
    /\ start_state' \in CompleteBitMasks(Len(built'.val.states))
    /\ goal' \in BitMasks(Len(built'.val.states))
    /\ run' = Problem
    /\ UNCHANGED <<built2, run2, call>>

Begin ==
    /\ run.pc = "new"
    /\ run' = solve_begin(run, domain, start_state, goal)
    /\ UNCHANGED <<raw, built, start_state, goal, built2, run2, call>>

\* The while loop runs its body (the model stops counting at MaxCount).
Iterating ==
    /\ run.pc = "loop"
    /\ run.frontier # <<>>
    /\ run.count < MaxCount

Skip ==
    /\ Iterating
    /\ branch_of(run, start_state, goal) = "skip"
    /\ run' = skip_step(popped_state(run))
    /\ UNCHANGED <<raw, built, start_state, goal, built2, run2, call>>

Solution ==
    /\ Iterating
    /\ branch_of(run, start_state, goal) = "solution"
    /\ run' = solution_step(popped_state(run))
    /\ UNCHANGED <<raw, built, start_state, goal, built2, run2, call>>

Expand ==
    /\ Iterating
    /\ branch_of(run, start_state, goal) = "expand"
    /\ run' = expand_step(popped_state(run), domain, start_state, goal)
    /\ UNCHANGED <<raw, built, start_state, goal, built2, run2, call>>

NoSolution ==
    /\ run.pc = "loop"
    /\ run.frontier = <<>>
    /\ run' = no_solution_step(run)
    /\ UNCHANGED <<raw, built, start_state, goal, built2, run2, call>>

Next == CreateProblem \/ Begin \/ Skip \/ Solution \/ Expand \/ NoSolution

Spec == Init /\ [][Next]_vars

\* The steps that compute accomplishment pools are enabled exactly here.
Computes ==
    \/ run.pc \in {"unset", "new"}
    \/ (Iterating /\ branch_of(run, start_state, goal) = "expand")

\* solve() is a loop of one thread: once called it keeps running.  Every step
\* is weakly fair; for the steps that compute pools the enabling condition is
\* written out as Computes.
FairSpec ==
    /\ Spec
    /\ WF_vars(Skip) /\ WF_vars(Solution) /\ WF_vars(NoSolution)
    /\ ([]<>(~Computes) \/ []<><<CreateProblem \/ Begin \/ Expand>>_vars)

(* ------------------------ two separate solves ------------------------ *)

\* The same lists are compiled twice, the set of implied states iterated in
\* an order of its own each time, and one problem is posed over each domain.
CreatePair ==
    /\ run.pc = "unset"
    /\ built = NotBuilt
    /\ raw' \in SolveInputs
    /\ \E order, order2 \in iteration_orders(implied_states(raw'.actions)) :
          /\ built' = ConcreteDomain(raw', order)
          /\ built2' = ConcreteDomain(raw', order2)
    /\ built'.exc = "none"
    /\ built2'.exc = "none"
    /\ start_state' \in CompleteBitMasks(Len(built'.val.states))
    /\ goal' \in BitMasks(Len(built'.val.states))
    /\ run' = Problem
    /\ run2' = Problem
    /\ UNCHANGED call

\* The second invocation of solve, made once the first has ended, makes a
\* step.
Second ==
    /\ run.pc \in {"returned", "raised"}
    /\ run2.pc \in {"new", "loop"}
    /\ run2.count < MaxCount
    /\ run2' = run_step(run2, built2.val, start_state, goal)
    /\ UNCHANGED <<raw, built, start_state, goal, run, built2, call>>

PairNext ==
    CreatePair \/ Begin \/ Skip \/ Solution \/ Expand \/ NoSolution \/ Second

PairSpec == Init /\ [][PairNext]_vars

(* --------------------- compilation and its domain --------------------- *)

\* ConcreteDomain(...) is called: it returns a domain or raises.
Compile ==
    /\ built = NotBuilt
    /\ run.pc = "unset"
    /\ raw' \in DomainInputs
    /\ \E order \in iteration_orders(implied_states(raw'.actions)) :
          built' = ConcreteDomain(raw', order)
    /\ UNCHANGED <<start_state, goal, run, built2, run2, call>>

\* domain.strict_accomplishment_pools(goal) is called with some goal.
CallPools ==
    /\ built.exc = "none"
    /\ run.pc = "unset"
    /\ \E g \in BitMasks(Len(domain.states)) :
          call' = [op |-> "strict_accomplishment_pools",
                   goal |-> g,
                   result |-> strict_accomplishment_pools(domain, g)]
    /\ UNCHANGED <<raw, built, start_state, goal, run, built2, run2>>

\* ActionPool(actions) is called with some of the domain's actions.
CallActionPool ==
    /\ built.exc = "none"
    /\ run.pc = "unset"
    /\ \E actions \in index_lists(Len(domain.actions), MaxPool) :
          call' = [op |-> "ActionPool",
                   actions |-> actions,
                   exc |-> ActionPool_exc(domain, actions)]
    /\ UNCHANGED <<raw, built, start_state, goal, run, built2, run2>>

DomainNext == Compile \/ CallPools \/ CallActionPool

DomainSpec == Init /\ [][DomainNext]_vars

(* ------------------------ constraint propagation ---------------------- *)

\* domain.apply_constraints(init_state) is called with some state.
CallApplyConstraints ==
    /\ built.exc = "none"
    /\ run.pc = "unset"
    /\ call = NoCall
    /\ \E s \in BitMasks(Len(domain.states)) :
          LET r == apply_constraints(domain.constraints, domain.state_bits,
                                     Len(domain.states), s)
          IN  call' = [op |-> "apply_constraints", init_state |-> s,
                       exc |-> r.exc, result |-> r.val]
    /\ UNCHANGED <<raw, built, start_state, goal, run, built2, run2>>

ConstraintNext == Compile \/ CallApplyConstraints

ConstraintSpec == Init /\ [][ConstraintNext]_vars

(* ---------------------------- prepending ------------------------------ *)

\* The pools of at most MaxPool actions that ActionPool accepts.
ValidPools ==
    { ActionPool(domain, l) :
        l \in { m \in index_lists(Len(domain.actions), MaxPool) :
                   ActionPool_exc(domain, m) = "none" } }

\* The sequences a finished search holds: those left in the frontier, the
\* last one popped and the one returned.
HeldSequences ==
    { run.frontier[k].seq : k \in 1 .. Len(run.frontier) }
    \cup { run.returned[k] : k \in 1 .. Len(run.returned) }
    \cup (IF run.popped >= 0 THEN {run.best.seq} ELSE {})

\* seq.with_prepend(pool) is called after the search, on a sequence it holds.
CallWithPrepend ==
    /\ run.pc = "returned"
    /\ call = NoCall
    /\ \E seq \in HeldSequences : \E pool \in ValidPools :
          call' = [op |-> "with_prepend", seq |-> seq, pool |-> pool,
                   exc |-> with_prepend(seq, pool).exc,
                   result |-> with_prepend(seq, pool).val]
    /\ UNCHANGED <<raw, built, start_state, goal, run, built2, run2>>

PrependNext ==
    \/ CreateProblem \/ Begin \/ Skip \/ Solution \/ Expand \/ NoSolution
    \/ CallWithPrepend

PrependSpec == Init /\ [][PrependNext]_vars

(* -------------------------- the candidates --------------------------- *)

\* domain.strict_accomplishment_actions(goal) is called with some goal.
CallCandidates ==
    /\ built.exc = "none"
    /\ run.pc = "unset"
    /\ call = NoCall
    /\ \E g \in BitMasks(Len(domain.states)) :
          call' = [op |-> "strict_accomplishment_actions",
                   goal |-> g,
                   result |-> strict_accomplishment_actions(domain, g)]
    /\ UNCHANGED <<raw, built, start_state, goal, run, built2, run2>>

CandidateNext == Compile \/ CallCandidates

CandidateSpec == Init /\ [][CandidateNext]_vars

(* ------------------- the operations of a BitMask ---------------------- *)

\* The BitMasks an operation is called on: every width up to MaxWidth, the
\* mask over the width and the position after it.
Operands ==
    UNION { { BitMask(b, m, w) : b \in SUBSET Range(w + 1),
                                 m \in SUBSET Range(w + 1) } :
            w \in 0 .. MaxWidth }

\* The items of the lists all_union is called on: at most one known position.
Items ==
    { x \in UNION { BitMasks(w) : w \in (MaxWidth - 1) .. MaxWidth } :
        Cardinality(x.mask) <= 1 }

RECURSIVE lists_of(_, _)
lists_of(S, n) ==
    IF n = 0 THEN {<<>>}
    ELSE {<<>>} \cup { <<x>> \o l : x \in S, l \in lists_of(S, n - 1) }

\* A width past the alphabet, and the BitMasks of that width that know
\* positions around the end of the alphabet only.
LongWidth == Len(on_names) + 2

LongOperands ==
    { BitMask(b, m, LongWidth) :
        b \in SUBSET ((LongWidth - 3) .. (LongWidth - 1)),
        m \in SUBSET ((LongWidth - 3) .. (LongWidth - 1)) }

\* The texts from_string is called on: the mask strings of the operands, a
\* repr, a padded string, a letter out of its position and a digit.
Texts ==
    { mask_str(x) : x \in { y \in Operands : y.mask \subseteq Range(y.width) } }
    \cup { mask_str(x) : x \in LongOperands }
    \cup { LT \o BITMASK_PREFIX \o <<65, 98>> \o GT,
           <<32, 65, 45, 32>>,
           <<66>>,
           <<45, 49>> }

\* One call is made, with no domain or problem around.
Apart ==
    /\ run.pc = "unset"
    /\ built = NotBuilt
    /\ call = NoCall
    /\ UNCHANGED <<raw, built, start_state, goal, run, built2, run2>>

\* BitMask(bits, mask, width)
CallBitMask ==
    /\ Apart
    /\ \E w \in 0 .. MaxWidth : \E b, m \in SUBSET Range(w + 1) :
          call' = [op |-> "BitMask", bits |-> b, mask |-> m, width |-> w,
                   exc |-> "none", result |-> BitMask(b, m, w)]

\* BitMask.null(width)
CallNull ==
    /\ Apart
    /\ \E w \in 0 .. MaxWidth :
          call' = [op |-> "null", width |-> w, exc |-> "none", result |-> null(w)]

\* BitMask.from_string(s)
CallFromString ==
    /\ Apart
    /\ \E t \in Texts :
          call' = [op |-> "from_string", s |-> t,
                   exc |-> IF from_string_raises(t) THEN "Exception" ELSE "none",
                   result |-> from_string(t)]

\* self.mask_str()
CallMaskStr ==
    /\ Apart
    /\ \E a \in Operands \cup LongOperands :
          call' = [op |-> "mask_str", self |-> a, exc |-> "none",
                   result |-> mask_str(a)]

\* self.add(pos, bit, force)
CallAdd ==
    /\ Apart
    /\ \E a \in Operands : \E i \in Range(a.width + 1) :
       \E bit \in {0, 1} : \E force \in BOOLEAN :
          call' = [op |-> "add", self |-> a, pos |-> {i}, bit |-> bit,
                   force |-> force,
                   exc |-> IF add_raises(a, {i}, bit, force)
                           THEN "IncompatibleAdd" ELSE "none",
                   result |-> add(a, {i}, bit, force)]

\* What is recorded of self.name(other): the operands, what it raised and
\* what it returned.
Called(name, a, b, exc, result) ==
    [op |-> name, self |-> a, other |-> b, exc |-> exc, result |-> result]

\* self.unset_from_action(action_then)
CallUnsetFromAction ==
    /\ Apart
    /\ \E a, b \in Operands :
          call' = Called("unset_from_action", a, b,
                         IF unset_from_action_raises(a, b, FALSE)
                         THEN "AssertionError" ELSE "none",
                         unset_from_action(a, b))

\* self.difference(other)
CallDifference ==
    /\ Apart
    /\ \E a, b \in Operands :
          call' = Called("difference", a, b, "none", difference(a, b))

\* self.without_matching(other)
CallWithoutMatching ==
    /\ Apart
    /\ \E a, b \in Operands :
          call' = Called("without_matching", a, b, "none", without_matching(a, b))

\* self.carry_forward(previous)
CallCarryForward ==
    /\ Apart
    /\ \E a, b \in Operands :
          call' = Called("carry_forward", a, b, "none", carry_forward(a, b))

\* self.except_satisfied_by(action_results)
CallExceptSatisfiedBy ==
    /\ Apart
    /\ \E a, b \in Operands :
          call' = Called("except_satisfied_by", a, b, "none",
                         except_satisfied_by(a, b))

\* self.union(other)
CallUnion ==
    /\ Apart
    /\ \E a, b \in Operands :
          call' = Called("union", a, b,
                         IF union_raises(a, b) THEN "Exception" ELSE "none",
                         union(a, b))

\* self.conflicts(other)
CallConflicts ==
    /\ Apart
    /\ \E a, b \in Operands :
          call' = Called("conflicts", a, b, "none", conflicts(a, b))

\* The operands of the calls made on three BitMasks.
NarrowOperands == { x \in Operands : x.width < MaxWidth }

\* c.carry_forward(b.carry_forward(a)) and c.carry_forward(b).carry_forward(a)
CallCarryForwardTwice ==
    /\ Apart
    /\ \E a, b, c \in NarrowOperands :
          call' = [op |-> "carry_forward_twice", a |-> a, b |-> b, c |-> c,
                   exc |-> "none",
                   nested |-> carry_forward(c, carry_forward(b, a)),
                   chained |-> carry_forward(carry_forward(c, b), a)]

\* a.except_satisfied_by(b) and a.without_matching(b) on the same operands
CallReductions ==
    /\ Apart
    /\ \E a, b \in Operands :
          call' = [op |-> "reductions", self |-> a, other |-> b, exc |-> "none",
                   except_satisfied_by |-> except_satisfied_by(a, b),
                   without_matching |-> without_matching(a, b)]

\* self.accomplishes_something(goal)
CallAccomplishesSomething ==
    /\ Apart
    /\ \E a, b \in Operands :
          call' = Called("accomplishes_something", a, b, "none",
                         accomplishes_something(a, b))

\* self == other, hash(self) and hash(other)
CallEqHash ==
    /\ Apart
    /\ \E a, b \in Operands :
          call' = [op |-> "eq_hash", self |-> a, other |-> b, exc |-> "none",
                   result |-> eq(a, b),
                   hash_self |-> hash(a), hash_other |-> hash(b)]

\* BitMask.all_union(items)
CallAllUnion ==
    /\ Apart
    /\ \E items \in lists_of(Items, MaxItems) :
          call' = [op |-> "all_union", items |-> items,
                   exc |-> all_union_exc(items),
                   result |-> IF items = <<>> THEN <<>> ELSE all_union(items)]

BitNext ==
    \/ CallBitMask \/ CallNull \/ CallFromString \/ CallMaskStr \/ CallAdd
    \/ CallUnsetFromAction \/ CallDifference \/ CallWithoutMatching
    \/ CallCarryForward \/ CallExceptSatisfiedBy \/ CallUnion \/ CallConflicts
    \/ CallEqHash \/ CallAllUnion \/ CallCarryForwardTwice
    \/ CallReductions \/ CallAccomplishesSomething

BitSpec == Init /\ [][BitNext]_vars

(* ------------------------------- claims ------------------------------- *)

\* The plan [P1..Pn, Goal] run from a state: each pool's must is satisfied by
\* the state before it, and the state after it is its then carried forward.
RECURSIVE Executes(_, _, _)
Executes(pools, k, state) ==
    IF k > Len(pools) THEN TRUE
    ELSE /\ satisfies(state, pools[k].must_bits)
         /\ Executes(pools, k + 1, carry_forward(pools[k].then_bits, state))

RECURSIVE StateAfter(_, _, _)
StateAfter(pools, k, state) ==
    IF k > Len(pools) THEN state
    ELSE StateAfter(pools, k + 1, carry_forward(pools[k].then_bits, state))

Returned == run.pc = "returned"
Plan == run.returned[1]

\* C1: every sequence solve returns is executable from the start state: each
\* pool's preconditions hold in the state before it, and the state after the
\* last pool satisfies the goal.
C1_Soundness ==
    (Returned /\ run.has_solution = "True") =>
        /\ Executes(Plan.actions, 1, start_state)
        /\ satisfies(StateAfter(Plan.actions, 1, start_state), goal)

\* A plan of two action pools and the goal sentinel has been returned.
C1_Witness ==
    /\ Returned
    /\ run.has_solution = "True"
    /\ Len(Plan.actions) >= 3

\* C2: the search loop eventually ends, returning a plan or reporting no
\* solution.
C2_Termination == <>(run.pc = "returned")

\* The loop ended with the frontier empty after several expansions.
C2_Witness ==
    /\ Returned
    /\ run.has_solution = "False"
    /\ run.log.expansions >= 3

\* C3: solve raises no exception; it returns a sequence with has_solution
\* True, or None with has_solution False.
C3_NeverRaises ==
    /\ run.pc # "raised"
    /\ run.exc = "none"
    /\ Returned =>
          \/ run.has_solution = "True" /\ Len(run.returned) = 1
          \/ run.has_solution = "False" /\ run.returned = <<>>
    /\ ~Returned => run.has_solution = "None"

\* An expansion built and scored several new sequences without raising.
C3_Witness ==
    /\ run.pc = "loop"
    /\ run.branch = "expand"
    /\ run.log.new_nodes >= 3
    /\ Len(run.frontier) >= 2

\* The must_bits of the sequences the log records as goal-tested.
AttemptedMust ==
    [k \in {j \in 1 .. Len(run.log.activity) :
                run.log.activity[j].type = "attempt_solution"} |->
        run.log.activity[k].action.must_bits]

\* No signature is goal-tested or expanded twice.
C4_Once ==
    /\ \A j, k \in DOMAIN AttemptedMust : j # k => AttemptedMust[j] # AttemptedMust[k]
    /\ run.log.goal_tests = Cardinality(DOMAIN AttemptedMust)
    /\ run.log.expansions <= run.log.goal_tests

\* A pop of a sequence whose must is already seen changes nothing but the
\* frontier and the skip count; and the seen-set only grows.
C4_Step ==
    /\ run.seen \subseteq run'.seen
    /\ (run'.count = run.count + 1 /\ run'.best.seq.must_bits \in run.seen) =>
          /\ run'.branch = "skip"
          /\ run'.seen = run.seen
          /\ run'.log.goal_tests = run.log.goal_tests
          /\ run'.log.expansions = run.log.expansions
          /\ run'.log.new_nodes = run.log.new_nodes
          /\ Len(run'.frontier) = Len(run.frontier) - 1
          /\ run'.pc = "loop"

\* C4: a popped sequence whose aggregate must is already seen is discarded
\* without a goal test and without expansion; no signature is goal-tested or
\* expanded more than once; the seen-set only grows.
C4_Memoization == [](C4_Once) /\ [][C4_Step]_vars

\* A sequence was popped and skipped as already seen.
C4_Witness ==
    /\ run.branch = "skip"
    /\ run.log.skipped_count >= 1
    /\ run.best.seq.must_bits \in run.seen

\* C5 as stated: index 0 is popped, except that on every 5th iteration after
\* some sequence has been skipped as a duplicate the middle one is.
C5_Original ==
    [][run'.count = run.count + 1 =>
          run'.popped = IF run.log.skipped_count >= 1 /\ run'.count % 5 = 0
                        THEN Len(run.frontier) \div 2 ELSE 0]_vars

\* C5 (amended): index 0 is popped, except that every 5th iteration pops the
\* middle element, whether or not a duplicate has been skipped before.
C5_Selection ==
    [][run'.count = run.count + 1 =>
          /\ run'.popped = IF run'.count % 5 = 0
                           THEN Len(run.frontier) \div 2 ELSE 0
          /\ run'.best = run.frontier[run'.popped + 1]
          /\ (run'.count % 5 = 0 => run.seen # {})]_vars

\* The 5th iteration popped the middle element, not the first, and no
\* sequence had been skipped.
C5_Witness ==
    /\ run.count = 5
    /\ run.popped >= 1
    /\ run.log.skipped_count = 0

\* C6: two compilations of the same lists give the same domain, and two
\* separate solves of the same start and goal that are at the same place (the
\* same iteration of the loop, or both ended) are in the same state: the same
\* pops, skips and expansions were logged, and the returned sequences have
\* the same aggregate must and then (or both report no solution).
C6_Determinism ==
    run.pc # "unset" =>
        /\ built2 = built
        /\ (run.pc = run2.pc /\ (run.pc = "returned" \/ run.count = run2.count))
              => /\ run2.log.activity = run.log.activity
                 /\ run2.has_solution = run.has_solution
                 /\ Len(run2.returned) = Len(run.returned)
                 /\ run.returned # <<>> =>
                       /\ run2.returned[1].must_bits = run.returned[1].must_bits
                       /\ run2.returned[1].then_bits = run.returned[1].then_bits
                 /\ run2 = run

\* Both solves of a domain whose three states were implied have returned a
\* plan after skipping a duplicate.
C6_Witness ==
    /\ run.pc = "returned" /\ run2.pc = "returned"
    /\ run.has_solution = "True" /\ run2.has_solution = "True"
    /\ raw.states = <<>> /\ Len(built.val.states) = 3
    /\ run.log.skipped_count >= 1
    /\ run.returned[1].actions # <<>>
\* Two bitmasks know a position at different values / at the same value.
Differ(x, y) ==
    \E pos \in BitAnd(x.mask, y.mask) : (pos \in x.bits) # (pos \in y.bits)

Agree(x, y) ==
    \E pos \in BitAnd(x.mask, y.mask) : (pos \in x.bits) = (pos \in y.bits)

PoolsCalled == call.op = "strict_accomplishment_pools" /\ ~is_null(call.goal)
Pools == call.result.val
Members(pool) == { pool.actions[k] : k \in 1 .. Len(pool.actions) }

\* C7: for a non-null goal, no pool strict_accomplishment_pools returns holds
\* two mutually exclusive actions (by is_mutex or by their mutex sets), and
\* the pool's then knows some position the goal knows, at the goal's value.
C7_PoolsSafe ==
    (PoolsCalled /\ call.result.exc = "none") =>
        \A k \in 1 .. Len(Pools) :
            /\ \A a, b \in Members(Pools[k]) :
                   a # b => /\ ~is_mutex(domain.actions[a], domain.actions[b])
                            /\ b \notin domain.actions[a].mutex
            /\ Agree(Pools[k].then_bits, call.goal)

\* A pool of two actions was returned, from a domain with a mutex pair.
C7_Witness ==
    /\ PoolsCalled /\ call.result.exc = "none"
    /\ \E k \in 1 .. Len(Pools) : Len(Pools[k].actions) = 2
    /\ \E i \in 1 .. Len(domain.actions) : domain.actions[i].mutex # {}
\* The candidates of the goal, and the goal with the positions removed that
\* the members of S before action a set.
Candidates == strict_accomplishment_actions(domain, call.goal)
CandidateSet == { Candidates[k] : k \in 1 .. Len(Candidates) }

Remaining(S, a) ==
    LET earlier == UNION { domain.actions[b].then_bits.mask :
                             b \in { c \in S : c < a } }
    IN  [bits |-> call.goal.bits \ earlier,
         mask |-> call.goal.mask \ earlier,
         width |-> call.goal.width]

ValidSubset(S) ==
    /\ S # {}
    /\ \A a, b \in S : a # b => b \notin domain.actions[a].mutex
    /\ \A a \in S : Agree(domain.actions[a].then_bits, Remaining(S, a))

\* C8: for a non-null goal strict_accomplishment_pools returns, and its pools
\* are exactly the valid non-empty subsets of the name-sorted candidates (no
\* two members mutex, each member in sorted order accomplishing something
\* against the goal less the bits of the earlier members), each once, each
\* listing its members in sorted order.
C8_AllSubsetsOnce ==
    PoolsCalled =>
        /\ call.result.exc = "none"
        /\ { Members(Pools[k]) : k \in 1 .. Len(Pools) }
             = { S \in SUBSET CandidateSet : ValidSubset(S) }
        /\ \A k, l \in 1 .. Len(Pools) :
               k # l => Members(Pools[k]) # Members(Pools[l])
        /\ \A k \in 1 .. Len(Pools) :
               \A m, n \in 1 .. Len(Pools[k].actions) :
                   m < n => Pools[k].actions[m] < Pools[k].actions[n]

\* Three candidates of which some subsets are valid and some are not, and a
\* pool that is not maximal.
C8_Witness ==
    /\ PoolsCalled /\ call.result.exc = "none"
    /\ Len(Candidates) = 3
    /\ \E S \in SUBSET CandidateSet : S # {} /\ ~ValidSubset(S)
    /\ \E k, l \in 1 .. Len(Pools) :
          /\ Members(Pools[k]) # Members(Pools[l])
          /\ Members(Pools[k]) \subseteq Members(Pools[l])

\* The four conflicts of is_mutex, each spelled out.
FourConflicts(a, b) ==
    \/ Differ(a.must_bits, b.must_bits)
    \/ Differ(a.then_bits, b.then_bits)
    \/ Differ(a.must_bits, b.then_bits)
    \/ Differ(a.then_bits, b.must_bits)

\* C9: in a compiled domain b is in a.mutex iff a is in b.mutex iff one of the
\* four conflicts holds between them, no action is in its own mutex set, and
\* ActionPool on a list holding both members of a mutex pair fails.
C9_MutexSymmetric ==
    built.exc = "none" =>
        /\ \A a, b \in 1 .. Len(domain.actions) :
               a # b => /\ (b \in domain.actions[a].mutex)
                             <=> (a \in domain.actions[b].mutex)
                        /\ (b \in domain.actions[a].mutex)
                             <=> FourConflicts(domain.actions[a], domain.actions[b])
        /\ \A a \in 1 .. Len(domain.actions) : a \notin domain.actions[a].mutex
        /\ call.op = "ActionPool" =>
               ((\E m, n \in 1 .. Len(call.actions) :
                     call.actions[n] \in domain.actions[call.actions[m]].mutex)
                => call.exc = "AssertionError")

\* ActionPool was called on a mutex pair whose only conflict is between the
\* must of one and the then of the other.
C9_Witness ==
    /\ built.exc = "none"
    /\ call.op = "ActionPool"
    /\ Len(call.actions) = 2
    /\ call.actions[2] \in domain.actions[call.actions[1]].mutex
    /\ ~Differ(domain.actions[call.actions[1]].must_bits,
               domain.actions[call.actions[2]].must_bits)
    /\ ~Differ(domain.actions[call.actions[1]].then_bits,
               domain.actions[call.actions[2]].then_bits)
    /\ ~Differ(domain.actions[call.actions[1]].must_bits,
               domain.actions[call.actions[2]].then_bits)
    /\ call.exc = "AssertionError"

\* Propagation over names: what a list of literals says, and one pass of the
\* constraints over it from constraint c on (TRUE if it contradicts).
Says(lits, k) == [name |-> parse_polarity(lits[k]).name,
                  bit |-> parse_polarity(lits[k]).bit]
Declared(lits) == { Says(lits, k) : k \in 1 .. Len(lits) }

RECURSIVE ThenContradicts(_, _, _)
ThenContradicts(known, then, k) ==
    IF k > Len(then) THEN [bad |-> FALSE, known |-> known]
    ELSE IF \E l \in known : l.name = Says(then, k).name /\ l.bit # Says(then, k).bit
    THEN [bad |-> TRUE, known |-> known]
    ELSE ThenContradicts(known \cup {Says(then, k)}, then, k + 1)

RECURSIVE Contradicts(_, _, _)
Contradicts(known, constraints, c) ==
    IF c > Len(constraints) THEN FALSE
    ELSE IF Says(<<constraints[c].state>>, 1) \in known
    THEN LET r == ThenContradicts(known, constraints[c].then, 1)
         IN  r.bad \/ Contradicts(r.known, constraints, c + 1)
    ELSE Contradicts(known, constraints, c + 1)

Contradictory(action) ==
    \/ Contradicts(Declared(action.must), raw.constraints, 1)
    \/ Contradicts(Declared(action.then), raw.constraints, 1)

\* Every name a constraint uses is a state of the domain.
WellNamed ==
    LET states == domain_states(raw, <<>>)
        known == IF raw.states # <<>> THEN { states[k] : k \in 1 .. Len(states) }
                 ELSE implied_states(raw.actions)
    IN  \A c \in 1 .. Len(raw.constraints) :
            /\ Says(<<raw.constraints[c].state>>, 1).name \in known
            /\ \A k \in 1 .. Len(raw.constraints[c].then) :
                   Says(raw.constraints[c].then, k).name \in known

\* C10: if one pass of the constraints over the declared preconditions or
\* over the declared effects of some action implies a bit whose opposite is
\* known, ConcreteDomain raises and gives no domain; with every constraint
\* over states of the domain, it raises IncompatibleConstraints exactly then.
C10_ContradictionAtCompile ==
    built.exc # "pending" =>
        LET bad == \E k \in 1 .. Len(raw.actions) : Contradictory(raw.actions[k])
        IN  /\ bad => (built.exc # "none" /\ built.val = <<>>)
            /\ WellNamed => (bad <=> built.exc = "IncompatibleConstraints")

\* "p implies not q" with the action that requires p and q: no domain.
C10_Witness ==
    /\ built.exc = "IncompatibleConstraints"
    /\ built.val = <<>>
    /\ Len(raw.constraints) >= 1
    /\ raw.constraints[1] = [state |-> P, then |-> <<Not(Q)>>]
    /\ \E k \in 1 .. Len(raw.actions) : raw.actions[k].must = <<P, Q>>
    /\ built.info.action = <<>>
\* The domain of the scenarios: the states p and q implied by the one action
\* go (must p; then not p, q), no constraint.
GoDomain ==
    /\ raw.states = <<>>
    /\ raw.constraints = <<>>
    /\ raw.actions = <<ActionCatalog[1]>>
    /\ built.exc = "none"

\* Mask strings "Ab", "-B", "AB", "A-", "aB".
Str_Ab == <<65, 98>>
Str_xB == <<45, 66>>
Str_AB == <<65, 66>>
Str_Ax == <<65, 45>>
Str_aB == <<97, 66>>

\* C11: in the 2-state scenario (start p true and q false, goal q true) solve
\* does not raise, and what it returns is the pool [go] followed by the goal
\* sentinel, with aggregate must "A-" and aggregate then "aB".
C11_OneAction ==
    (GoDomain /\ start_state = from_string(Str_Ab) /\ goal = from_string(Str_xB))
    => /\ run.pc # "raised"
       /\ Returned =>
             /\ run.has_solution = "True"
             /\ Len(Plan.actions) = 2
             /\ Plan.actions[1].kind = "ActionPool"
             /\ Len(Plan.actions[1].actions) = 1
             /\ domain.actions[Plan.actions[1].actions[1]].action
                  = ActionCatalog[1].action
             /\ Plan.actions[2] = GoalPool(goal)
             /\ mask_str(Plan.must_bits) = Str_Ax
             /\ mask_str(Plan.then_bits) = Str_aB

\* solve has returned in the scenario.
C11_Witness ==
    /\ GoDomain /\ start_state = from_string(Str_Ab) /\ goal = from_string(Str_xB)
    /\ mask_str(domain.actions[1].must_bits) = Str_Ax
    /\ Returned

\* The no-solution scenario: the same domain, goal p true and q true.
NoPlanScenario == GoDomain /\ goal = from_string(Str_AB)

\* The log of a search that expanded the goal-only sequence and found no pool.
NoPlanActivity ==
    LET blank == ActionSequence(<<GoalPool(goal)>>, domain.null).val
    IN  << [type |-> "pick_frontier", length |-> 1],
           [type |-> "attempt_solution", action |-> blank,
            score |-> score_accomplishment_pool(blank, goal, start_state),
            alternative_count |-> 0],
           [type |-> "no_accomplishments", action |-> blank],
           [type |-> "no_solution"] >>

\* C12: in the no-solution scenario solve never raises, go is no candidate
\* for the goal, and solve comes to return None with has_solution False
\* after one iteration that expanded the goal-only sequence into no new node.
C12_NoSolution ==
    /\ [](NoPlanScenario =>
             /\ run.pc # "raised"
             /\ strict_accomplishment_actions(domain, goal) = <<>>
             /\ Truthy(conflicts(domain.actions[1].then_bits, goal))
             /\ run.count <= 1)
    /\ (NoPlanScenario ~>
            /\ Returned
            /\ run.has_solution = "False"
            /\ run.returned = <<>>
            /\ run.log.expansions = 1
            /\ run.log.new_nodes = 0
            /\ run.log.activity = NoPlanActivity)

\* The frontier has been emptied in the no-solution scenario.
C12_Witness ==
    /\ NoPlanScenario
    /\ Returned
    /\ run.log.activity = NoPlanActivity
\* The calls that return a BitMask.
ReturnsBitMask ==
    /\ call.op \in {"BitMask", "null", "from_string", "add", "unset_from_action",
                     "difference", "without_matching", "carry_forward",
                     "except_satisfied_by", "union", "all_union"}
    /\ call.exc = "none"

SameFields(a, b) == a.bits = b.bits /\ a.mask = b.mask /\ a.width = b.width

\* C14 as stated: two BitMasks compare equal iff their three fields agree,
\* and the hash is made of the three fields, so that two BitMasks with the
\* same bits and another mask or width are not given the same hash.
C14_HashJoint ==
    call.op = "eq_hash" =>
        /\ call.result <=> SameFields(call.self, call.other)
        /\ (call.self.bits = call.other.bits /\ ~SameFields(call.self, call.other))
              => call.hash_self # call.hash_other

\* What holds of the source: equality is joint, the hash is the bits alone.
C14_HashIsBits ==
    call.op = "eq_hash" =>
        /\ call.result <=> SameFields(call.self, call.other)
        /\ call.hash_self = call.self.bits
        /\ call.result => call.hash_self = call.hash_other

\* "-" and "a": the same bits, another mask, the same hash.
C14_Witness ==
    /\ call.op = "eq_hash"
    /\ call.self = from_string(DASH)
    /\ call.other = from_string(<<off_names[1]>>)
    /\ ~call.result
    /\ call.hash_self = call.hash_other

\* The bit of a BitMask at a position: "unknown", or its value 1 or 0.
ValueAt(x, i) ==
    IF i \notin x.mask THEN "unknown" ELSE IF i \in x.bits THEN "1" ELSE "0"

AddedBit == CHOOSE i \in call.pos : TRUE
AddedValue == IF call.bit # 0 THEN "1" ELSE "0"

\* The result of add: the bit known at the value, the rest as it was.
AddResult(x, result) ==
    /\ ValueAt(result, AddedBit) = AddedValue
    /\ \A i \in Positions \ {AddedBit} : ValueAt(result, i) = ValueAt(x, i)
    /\ result.width = x.width

\* C15: add on a bit that is unknown or has the value returns the BitMask
\* with that bit known at the value and nothing else changed, and adding
\* again changes nothing; on a bit known at the other value add without force
\* raises IncompatibleAdd; add with force returns, the bit at the value.
C15_Add ==
    call.op = "add" =>
        LET was == ValueAt(call.self, AddedBit)
        IN  /\ was \in {"unknown", AddedValue} =>
                  /\ call.exc = "none"
                  /\ AddResult(call.self, call.result)
                  /\ ~add_raises(call.result, call.pos, call.bit, call.force)
                  /\ add(call.result, call.pos, call.bit, call.force) = call.result
            /\ (was \notin {"unknown", AddedValue} /\ ~call.force) =>
                  call.exc = "IncompatibleAdd"
            /\ call.force =>
                  /\ call.exc = "none"
                  /\ AddResult(call.self, call.result)

\* add without force was refused on a bit known at the other value.
C15_Witness ==
    /\ call.op = "add"
    /\ ~call.force
    /\ ValueAt(call.self, AddedBit) = "1"
    /\ call.bit = 0
    /\ call.exc = "IncompatibleAdd"

\* C16: a.conflicts(b) == b.conflicts(a), and it is non-zero iff a position
\* is known in both at different values.
C16_Conflicts ==
    call.op = "conflicts" =>
        /\ call.result = conflicts(call.other, call.self)
        /\ Truthy(call.result) <=> Differ(call.self, call.other)
        /\ Truthy(call.result) <=>
              \E i \in Positions :
                  /\ ValueAt(call.self, i) # "unknown"
                  /\ ValueAt(call.other, i) # "unknown"
                  /\ ValueAt(call.self, i) # ValueAt(call.other, i)

\* Two BitMasks that conflict at one position and agree at another.
C16_Witness ==
    /\ call.op = "conflicts"
    /\ Cardinality(call.result) = 1
    /\ Agree(call.self, call.other)
    /\ call.self.bits # {} /\ call.other.bits # {}
\* Some two items of the list conflict, or differ in width.
SomePairFails(items) ==
    \E i, j \in 1 .. Len(items) :
        /\ i # j
        /\ \/ Differ(items[i], items[j])
           \/ items[i].width # items[j].width

\* C17: the union of two BitMasks of one width with disjoint masks has the OR
\* of the masks and the OR of the bits; all_union of two or more BitMasks
\* raises iff some pair conflicts or differs in width, and otherwise a
\* position is known in the result iff it is known in some item, at the
\* value it has there.
C17_Union ==
    /\ (/\ call.op = "union"
        /\ call.self.width = call.other.width
        /\ BitAnd(call.self.mask, call.other.mask) = Zero)
       => /\ call.exc = "none"
          /\ call.result.mask = BitOr(call.self.mask, call.other.mask)
          /\ call.result.bits = BitOr(call.self.bits, call.other.bits)
          /\ call.result.width = call.self.width
    /\ (call.op = "all_union" /\ Len(call.items) >= 2)
       => /\ call.exc # "none" <=> SomePairFails(call.items)
          /\ call.exc = "none" =>
                /\ \A i \in Positions :
                       /\ ValueAt(call.result, i) # "unknown"
                            <=> \E k \in 1 .. Len(call.items) :
                                    ValueAt(call.items[k], i) # "unknown"
                       /\ \A k \in 1 .. Len(call.items) :
                              ValueAt(call.items[k], i)
                                  \in {"unknown", ValueAt(call.result, i)}
                /\ \A k \in 1 .. Len(call.items) :
                       call.result.width = call.items[k].width

\* all_union was refused on three items that do not conflict, for the widths.
C17_Witness ==
    /\ call.op = "all_union"
    /\ Len(call.items) = 3
    /\ call.exc = "Exception"
    /\ \A i, j \in 1 .. 3 : ~Differ(call.items[i], call.items[j])

\* A valid mask string: at each position a dash or the letter of the
\* position, in upper or lower case.
ValidMaskString(t) ==
    \A k \in 1 .. Len(t) :
        \/ t[k] = DASH[1]
        \/ t[k] = on_names[((k - 1) % Len(on_names)) + 1]
        \/ t[k] = off_names[((k - 1) % Len(off_names)) + 1]

\* C18: from_string(s).mask_str() == s for a valid mask string s, and
\* from_string(b.mask_str()) == b for a BitMask b whose mask is within its
\* width.
C18_RoundTrip ==
    /\ (call.op = "from_string" /\ ValidMaskString(call.s))
       => /\ call.exc = "none"
          /\ mask_str(call.result) = call.s
    /\ (call.op = "mask_str" /\ call.self.mask \subseteq Range(call.self.width))
       => /\ ValidMaskString(call.result)
          /\ ~from_string_raises(call.result)
          /\ eq(from_string(call.result), call.self)

\* A string longer than the alphabet with a lower-case letter past its end.
C18_Witness ==
    /\ call.op = "from_string"
    /\ ValidMaskString(call.s)
    /\ Len(call.s) > Len(on_names)
    /\ call.s[Len(on_names) + 1] = off_names[1]
    /\ Len(on_names) \in call.result.mask
\* The three conditions of a candidate, position by position.
EffectsKeepGoal(a, g) ==
    \A i \in Positions :
        ValueAt(a.then_bits, i) \in {"unknown", ValueAt(g, i)}
        \/ ValueAt(g, i) = "unknown"

NewEffectInGoal(a, g) ==
    \E i \in Positions :
        /\ ValueAt(a.then_bits, i) # "unknown"
        /\ ValueAt(a.then_bits, i) # ValueAt(a.must_bits, i)
        /\ ValueAt(a.then_bits, i) = ValueAt(g, i)

UntouchedMustKeepsGoal(a, g) ==
    \A i \in Positions :
        (/\ ValueAt(a.must_bits, i) # "unknown"
         /\ ValueAt(a.then_bits, i) = "unknown"
         /\ ValueAt(g, i) # "unknown")
        => ValueAt(a.must_bits, i) = ValueAt(g, i)

\* C20: strict_accomplishment_actions(goal) returns, in the name-sorted order
\* of the domain's actions, exactly the actions whose then does not conflict
\* with the goal, whose then less the bits equal to their must accomplishes a
\* goal bit, and whose must less the positions their then sets does not
\* conflict with the goal.
C20_Candidates ==
    call.op = "strict_accomplishment_actions" =>
        /\ \A m, n \in 1 .. Len(call.result) :
               m < n => /\ call.result[m] < call.result[n]
                        /\ ~StrLess(domain.actions[call.result[n]].action,
                                    domain.actions[call.result[m]].action)
        /\ { call.result[m] : m \in 1 .. Len(call.result) }
             = { a \in 1 .. Len(domain.actions) :
                   /\ EffectsKeepGoal(domain.actions[a], call.goal)
                   /\ NewEffectInGoal(domain.actions[a], call.goal)
                   /\ UntouchedMustKeepsGoal(domain.actions[a], call.goal) }

\* Of three actions two are candidates; one is none though its then holds a
\* goal bit, as its must holds it too.
C20_Witness ==
    /\ call.op = "strict_accomplishment_actions"
    /\ Len(domain.actions) = 3
    /\ Len(call.result) = 2
    /\ \E a \in 1 .. 3 :
          /\ \A m \in 1 .. 2 : call.result[m] # a
          /\ Agree(domain.actions[a].then_bits, call.goal)
          /\ EffectsKeepGoal(domain.actions[a], call.goal)
\* C19: the sequence with_prepend returns has the pool before the pools of
\* seq, its aggregate must is pool.must union seq.must.except_satisfied_by(
\* pool.then), and its aggregate then is seq.then.carry_forward(pool.then).
C19_PrependIncremental ==
    (call.op = "with_prepend" /\ call.exc = "none") =>
        /\ call.result.actions = <<call.pool>> \o call.seq.actions
        /\ ~union_raises(call.pool.must_bits,
                         except_satisfied_by(call.seq.must_bits,
                                             call.pool.then_bits))
        /\ call.result.must_bits
             = union(call.pool.must_bits,
                     except_satisfied_by(call.seq.must_bits, call.pool.then_bits))
        /\ call.result.then_bits
             = carry_forward(call.seq.then_bits, call.pool.then_bits)

\* A pool was prepended to a sequence of a pool and the goal, which undoes
\* an effect of the new pool and needs another.
C19_Witness ==
    /\ call.op = "with_prepend" /\ call.exc = "none"
    /\ Len(call.seq.actions) >= 2
    /\ Differ(call.seq.then_bits, call.pool.then_bits)
    /\ Agree(call.seq.must_bits, call.pool.then_bits)
    /\ call.result.must_bits # call.seq.must_bits
\* The sequences solve holds with their scores: the frontier and, once an
\* iteration has run, the element it popped.
Scored ==
    { run.frontier[k] : k \in 1 .. Len(run.frontier) }
    \cup (IF run.popped >= 0 THEN {run.best} ELSE {})

\* The goal positions the sequence's then does not know.
RemainingGoal(seq) ==
    { i \in Range(goal.width) :
        ValueAt(goal, i) # "unknown" /\ ValueAt(seq.then_bits, i) = "unknown" }

\* The value of the union of the remaining goal with the sequence's must.
NeededAt(seq, i) ==
    IF i \in RemainingGoal(seq) THEN ValueAt(goal, i) ELSE ValueAt(seq.must_bits, i)

Needed(seq) == { i \in Range(goal.width) : NeededAt(seq, i) # "unknown" }

StartDistance(seq) ==
    { i \in Needed(seq) :
        ValueAt(start_state, i) # "unknown"
        /\ ValueAt(start_state, i) # NeededAt(seq, i) }

\* The number of actions in the pools of a sequence, from pool k on.
RECURSIVE ActionsIn(_, _)
ActionsIn(seq, k) ==
    IF k > Len(seq.actions) THEN 0
    ELSE (IF seq.actions[k].kind = "GoalPool" THEN 0
          ELSE Len(seq.actions[k].actions))
         + ActionsIn(seq, k + 1)

\* C21: every sequence in the frontier carries the score (goal positions not
\* known in its then, known positions of that remaining goal united with its
\* must, positions where start disagrees with that union, number of actions
\* in its pools with the goal counting 0).
C21_Score ==
    \A item \in Scored :
        item.score = << Cardinality(RemainingGoal(item.seq)),
                        Cardinality(Needed(item.seq)),
                        Cardinality(StartDistance(item.seq)),
                        ActionsIn(item.seq, 1) >>

\* The frontier holds a sequence of two actions whose score has no zero item.
C21_Witness ==
    \E k \in 1 .. Len(run.frontier) :
        /\ run.frontier[k].score[1] >= 1
        /\ run.frontier[k].score[2] >= 2
        /\ run.frontier[k].score[3] >= 1
        /\ run.frontier[k].score[4] >= 2
\* The frontier is in ascending order of score.
FrontierSorted ==
    \A i, j \in 1 .. Len(run.frontier) :
        i < j => ~TupleLess(run.frontier[j].score, run.frontier[i].score)

\* The sequence ends with the goal and has no other GoalPool.
EndsWithGoal(seq) ==
    /\ seq.actions # <<>>
    /\ seq.actions[Len(seq.actions)] = GoalPool(goal)
    /\ \A k \in 1 .. Len(seq.actions) - 1 : seq.actions[k].kind = "ActionPool"

\* An iteration of the loop that went on to the next: the frontier before
\* it, the frontier after it and the elements it inserted.
Iterated == run.pc = "loop" /\ run'.pc = "loop"
Kept == { run.frontier[k] : k \in 1 .. Len(run.frontier) }
Inserted == { run'.frontier[k] : k \in 1 .. Len(run'.frontier) } \ Kept

\* Where an element stood in the frontier before the iteration, and where
\* the pool of an inserted element stood in the list of the expansion.
PlaceBefore(item) == CHOOSE k \in 1 .. Len(run.frontier) : run.frontier[k] = item
ExpansionPools ==
    strict_accomplishment_pools(domain, run'.best.seq.must_bits).val
PlaceInExpansion(item) ==
    CHOOSE k \in 1 .. Len(ExpansionPools) : ExpansionPools[k] = item.seq.actions[1]

\* Of two elements of one score, x was inserted before y.
InsertedBefore(x, y) ==
    IF x \in Kept
    THEN y \in Kept => PlaceBefore(x) < PlaceBefore(y)
    ELSE y \notin Kept /\ PlaceInExpansion(x) < PlaceInExpansion(y)

TiesInInsertionOrder ==
    \A i, j \in 1 .. Len(run'.frontier) :
        (i < j /\ run'.frontier[i].score = run'.frontier[j].score)
            => InsertedBefore(run'.frontier[i], run'.frontier[j])

InsertedUnseen ==
    \A item \in Inserted :
        /\ item.seq.must_bits \notin run'.seen
        /\ item.seq = with_prepend(run'.best.seq, item.seq.actions[1]).val

\* C22: whenever solve is at the test of its loop the frontier is sorted by
\* score and every sequence in it ends with the goal as its only GoalPool;
\* an iteration leaves elements of one score in the order of their insertion
\* and inserts only sequences whose must is not in the seen-set.
C22_FrontierInvariant ==
    /\ [](run.pc = "loop" =>
            /\ FrontierSorted
            /\ \A k \in 1 .. Len(run.frontier) : EndsWithGoal(run.frontier[k].seq))
    /\ [][Iterated => (TiesInInsertionOrder /\ InsertedUnseen)]_vars

\* An expansion has left a frontier in which two sequences of one score
\* were inserted by different expansions (their lengths differ), the shorter
\* one first.
C22_Witness ==
    /\ run.pc = "loop"
    /\ run.branch = "expand"
    /\ \E i, j \in 1 .. Len(run.frontier) :
          /\ i < j
          /\ run.frontier[i].score = run.frontier[j].score
          /\ Len(run.frontier[i].seq.actions) < Len(run.frontier[j].seq.actions)
\* The position of a named state, and the value a literal ("name" or
\* "not name") gives it.
PositionOf(text) ==
    CHOOSE i \in Range(Len(domain.states)) :
        domain.state_bits[parse_polarity(text).name] = {i}
ValueOf(text) == IF parse_polarity(text).bit = 1 THEN "1" ELSE "0"

Named(text) == parse_polarity(text).name \in DOMAIN domain.state_bits

\* The literal holds in the state / is not known in it.
HoldsIn(s, text) == Named(text) /\ ValueAt(s, PositionOf(text)) = ValueOf(text)
UnknownIn(s, text) == Named(text) /\ ValueAt(s, PositionOf(text)) = "unknown"

\* The state with the first k literals of a list made known.
RECURSIVE Knowing(_, _, _)
Knowing(s, lits, k) ==
    IF k = 0 THEN s
    ELSE LET before == Knowing(s, lits, k - 1)
             i == PositionOf(lits[k])
         IN  [bits |-> IF ValueOf(lits[k]) = "1" THEN before.bits \cup {i}
                       ELSE before.bits \ {i},
              mask |-> before.mask \cup {i},
              width |-> before.width]

\* The state as extended by the first k constraints, in declaration order:
\* constraint k fires iff its trigger holds in the state extended by the
\* k - 1 constraints before it.
RECURSIVE ExtendedBy(_, _)
ExtendedBy(k, s) ==
    IF k = 0 THEN s
    ELSE LET before == ExtendedBy(k - 1, s)
         IN  IF HoldsIn(before, domain.constraints[k].state)
             THEN Knowing(before, domain.constraints[k].then,
                          Len(domain.constraints[k].then))
             ELSE before

\* C23: what apply_constraints returns is the state extended by one pass over
\* the constraints in declaration order, and every bit known in the input is
\* known with the same value in the result.
C23_SinglePass ==
    (call.op = "apply_constraints" /\ call.exc = "none") =>
        /\ call.result = ExtendedBy(Len(domain.constraints), call.init_state)
        /\ \A i \in Range(Len(domain.states)) :
              ValueAt(call.init_state, i) # "unknown"
                  => ValueAt(call.result, i) = ValueAt(call.init_state, i)

\* The result is not a fixpoint: the trigger of an earlier constraint holds in
\* it only through a later constraint, and its implication is not known.
C23_Witness ==
    /\ call.op = "apply_constraints" /\ call.exc = "none"
    /\ \E c, d \in 1 .. Len(domain.constraints) :
          /\ c < d
          /\ ~HoldsIn(call.init_state, domain.constraints[c].state)
          /\ HoldsIn(call.init_state, domain.constraints[d].state)
          /\ HoldsIn(call.result, domain.constraints[c].state)
          /\ \E k \in 1 .. Len(domain.constraints[c].then) :
                UnknownIn(call.result, domain.constraints[c].then[k])
\* Compilation ended with IncompatibleConstraints.
Incompatible == built.exc = "IncompatibleConstraints"

\* The error names the constraint, the state at the conflict and the implied
\* state: the constraint is one of the domain's, its trigger holds in the
\* state and the implied state is known there at the other value.
CarriesConflict ==
    /\ \E c \in 1 .. Len(raw.constraints) : built.info.constraint = raw.constraints[c]
    /\ \E k \in 1 .. Len(built.info.constraint.then) :
          /\ parse_polarity(built.info.constraint.then[k]).name = built.info.then_state
          /\ Differ(built.info.init_state, built.info.then_mask)

\* The literal holds in the state the error carries.
HoldsAtConflict(text) ==
    LET lit == parse_polarity(text)
        order == CHOOSE o \in iteration_orders(implied_states(raw.actions)) : TRUE
        state_bits == state_bits_of(domain_states(raw, order))
    IN  ValueAt(built.info.init_state, CHOOSE i \in state_bits[lit.name] : TRUE)
            = (IF lit.bit = 1 THEN "1" ELSE "0")

\* C24: an IncompatibleConstraints raised while an action is compiled carries
\* the constraint, the state at the conflict, the implied state and the action
\* (action is not None).
C24_ActionAttached ==
    Incompatible => (CarriesConflict /\ built.info.action # <<>>)

\* What the constructor does: the error carries the constraint, the state and
\* the implied state; the action is attached when the conflict is with what
\* the constraints imply from the effects, and is None when it is with what
\* they imply from the preconditions.
C24_AttachedForEffectsOnly ==
    Incompatible =>
        /\ CarriesConflict
        /\ (built.info.action # <<>>) =>
              \E a \in 1 .. Len(raw.actions) :
                  /\ built.info.action = <<raw.actions[a].action>>
                  /\ \A k \in 1 .. Len(raw.actions[a].then) :
                        HoldsAtConflict(raw.actions[a].then[k])
        /\ (built.info.action = <<>>) =>
              \E a \in 1 .. Len(raw.actions) :
                  \A k \in 1 .. Len(raw.actions[a].must) :
                      HoldsAtConflict(raw.actions[a].must[k])

\* The preconditions of an action contradict what a constraint implies from
\* them, and the error raised carries no action.
C24_Witness ==
    /\ Incompatible
    /\ CarriesConflict
    /\ built.info.action = <<>>
\* The effects of an action as declared, extended by the constraints.
PropagatedEffects(a) ==
    ExtendedBy(Len(domain.constraints),
               Knowing(null(Len(domain.states)), a.then, Len(a.then)))

\* then knows what must knows: the effect's value where the propagated effects
\* set the position, the precondition's value elsewhere.
ThenHoldsMust(a) ==
    /\ a.must_bits.mask \subseteq a.then_bits.mask
    /\ a.then_bits = carry_forward(PropagatedEffects(a), a.must_bits)
    /\ \A i \in Range(Len(domain.states)) :
          ValueAt(a.then_bits, i) =
              IF ValueAt(PropagatedEffects(a), i) # "unknown"
              THEN ValueAt(PropagatedEffects(a), i)
              ELSE ValueAt(a.must_bits, i)

\* C25: in a compiled domain every action's then is its propagated effects
\* carried forward over its must, so then knows every position must knows;
\* and the then of every ActionPool knows every position its must knows.
C25_ThenCoversMust ==
    (built.exc = "none") =>
        /\ \A a \in 1 .. Len(domain.actions) : ThenHoldsMust(domain.actions[a])
        /\ \A pool \in ValidPools : pool.must_bits.mask \subseteq pool.then_bits.mask
        /\ (PoolsCalled /\ call.result.exc = "none") =>
              \A k \in 1 .. Len(Pools) :
                  Pools[k].must_bits.mask \subseteq Pools[k].then_bits.mask

\* A compiled action keeps a precondition its effects do not touch, another
\* one's effect overrides its precondition, and a pool of two actions was
\* returned.
C25_Witness ==
    /\ built.exc = "none"
    /\ \E a \in 1 .. Len(domain.actions) :
          \E i \in domain.actions[a].must_bits.mask :
              ValueAt(PropagatedEffects(domain.actions[a]), i) = "unknown"
    /\ \E a \in 1 .. Len(domain.actions) :
          Differ(domain.actions[a].must_bits, domain.actions[a].then_bits)
    /\ PoolsCalled /\ call.result.exc = "none"
    /\ \E k \in 1 .. Len(Pools) : Len(Pools[k].actions) = 2
\* C26: self.carry_forward(previous) knows the positions either knows, each
\* at the value of self where self knows it and of previous elsewhere; it is
\* associative, and carrying a null BitMask forward gives self.
C26_CarryForward ==
    /\ (call.op = "carry_forward") =>
          /\ call.result.mask = call.self.mask \cup call.other.mask
          /\ call.result.width = call.self.width
          /\ \A i \in Positions :
                ValueAt(call.result, i) =
                    IF ValueAt(call.self, i) # "unknown"
                    THEN ValueAt(call.self, i)
                    ELSE ValueAt(call.other, i)
          /\ is_null(call.other) => call.result = call.self
    /\ (call.op = "carry_forward_twice") => call.nested = call.chained

\* Three BitMasks that know one position, the first and the last at
\* different values, were carried forward in both groupings.
C26_Witness ==
    /\ call.op = "carry_forward_twice"
    /\ Differ(call.a, call.c)
    /\ Differ(call.a, call.b)
    /\ \E i \in call.a.mask \cap call.b.mask : i \notin call.c.mask
    /\ call.nested.mask = call.a.mask \cup call.b.mask \cup call.c.mask
\* x is a with its mask reduced by the positions a and b know at one value.
ReducedBy(x, a, b) ==
    /\ x.width = a.width
    /\ \A i \in Positions :
          ValueAt(x, i) =
              IF ValueAt(b, i) # "unknown" /\ ValueAt(b, i) = ValueAt(a, i)
              THEN "unknown"
              ELSE ValueAt(a, i)

\* C27: a.except_satisfied_by(b) and a.without_matching(b) are the same
\* BitMask: a without the positions that a and b know at equal values.
C27_SameReduction ==
    (call.op = "reductions") =>
        /\ call.except_satisfied_by = call.without_matching
        /\ ReducedBy(call.except_satisfied_by, call.self, call.other)
        /\ ReducedBy(call.without_matching, call.self, call.other)

\* The operands agree at one position, disagree at another, and a knows a
\* position b does not: only the first leaves the mask.
C27_Witness ==
    /\ call.op = "reductions"
    /\ Agree(call.self, call.other)
    /\ Differ(call.self, call.other)
    /\ call.self.mask \ call.other.mask # {}
    /\ call.without_matching.mask # {}
    /\ call.without_matching.mask # call.self.mask
\* C28: self.accomplishes_something(goal) is non-zero iff self and goal know
\* some position at the same value; it is zero when their masks are disjoint,
\* when goal is null and when they differ wherever both know.
C28_Accomplishes ==
    (call.op = "accomplishes_something") =>
        /\ Truthy(call.result) <=>
              \E i \in Positions :
                  /\ ValueAt(call.self, i) # "unknown"
                  /\ ValueAt(call.self, i) = ValueAt(call.other, i)
        /\ (call.self.mask \cap call.other.mask = {}) => ~Truthy(call.result)
        /\ is_null(call.other) => ~Truthy(call.result)
        /\ (~Agree(call.self, call.other)) => ~Truthy(call.result)

\* self knows two positions of the goal, one at the goal's value and one at
\* the other value, and the result is non-zero.
C28_Witness ==
    /\ call.op = "accomplishes_something"
    /\ Agree(call.self, call.other)
    /\ Differ(call.self, call.other)
    /\ Truthy(call.result)
\* The counters after an iteration that went on to the test of the loop.
CountersAtLoop ==
    /\ run.log.total_count = run.log.skipped_count + run.log.seen_count
    /\ run.log.total_count = run.count
    /\ run.log.goal_tests = run.log.seen_count
    /\ run.log.seen_count = Cardinality(run.seen)
    /\ run.log.expansions = run.log.seen_count

\* The counters when solve has returned a plan.
CountersAtSolution ==
    /\ run.log.total_count = run.log.skipped_count + run.log.seen_count
    /\ run.log.goal_tests = run.log.seen_count
    /\ run.log.seen_count = Cardinality(run.seen)
    /\ run.log.expansions = run.log.seen_count - 1

\* A step adds to new_nodes the number of pools its expansion returned.
NewNodesStep ==
    run'.log.new_nodes =
        run.log.new_nodes
        + (IF run'.branch = "expand" /\ run'.count = run.count + 1
              /\ run'.pc = "loop"
           THEN Len(strict_accomplishment_pools(domain,
                                                run'.best.seq.must_bits).val)
           ELSE 0)

\* C29: after every completed iteration of solve total_count = skipped_count
\* + seen_count, goal_tests = seen_count = the size of the seen-set and
\* expansions = seen_count; at a successful return expansions = seen_count - 1;
\* new_nodes grows by the number of pools each expansion returns, whether or
\* not the sequences are then dropped as seen.
C29_Statistics ==
    /\ []((run.pc = "loop" \/ (run.pc = "returned" /\ run.has_solution = "False"))
             => CountersAtLoop)
    /\ []((run.pc = "returned" /\ run.has_solution = "True") => CountersAtSolution)
    /\ [][(run.pc \in {"new", "loop"} /\ run'.pc # "raised") => NewNodesStep]_vars

\* solve returned a plan after two expansions, one of which gave a sequence
\* that was dropped as seen (more new nodes than sequences ever inserted
\* after the first).
C29_Witness ==
    /\ run.pc = "returned" /\ run.has_solution = "True"
    /\ run.log.expansions >= 2
    /\ run.log.new_nodes > Len(run.frontier) + run.log.total_count - 1
\* A problem has been posed; its goal is null or not.
Posed == run.pc # "unset"

\* No action of the domain has an effect at the value the goal requires.
NothingAccomplishes ==
    \A a \in 1 .. Len(domain.actions) : ~Agree(domain.actions[a].then_bits, goal)

\* solve has returned without a plan after its first iteration, an expansion.
NoPlanAfterFirst ==
    /\ run.has_solution = "False"
    /\ run.count = 1
    /\ run.log.expansions = 1
    /\ run.log.new_nodes = 0

\* solve has returned the goal-only sequence from its first iteration.
GoalOnlyAtFirst ==
    /\ run.has_solution = "True"
    /\ run.count = 1
    /\ run.returned[1].actions = <<GoalPool(goal)>>

\* C30: for a non-null goal every plan solve returns has an action pool
\* before the goal, also when start satisfies the goal, and when no action's
\* effect accomplishes a goal bit solve returns without a plan after one
\* expansion; for a null goal solve returns the goal-only sequence in its
\* first iteration and expands nothing, so strict_accomplishment_pools is
\* not called.
C30_GoalOnlyNeverSucceeds ==
    /\ (Posed /\ ~is_null(goal)) =>
          /\ run.has_solution = "True" => Len(run.returned[1].actions) >= 2
          /\ NothingAccomplishes =>
                /\ run.pc # "raised"
                /\ run.has_solution # "True"
                /\ run.pc = "returned" => NoPlanAfterFirst
    /\ (Posed /\ is_null(goal)) =>
          /\ run.pc # "raised"
          /\ run.log.expansions = 0
          /\ run.pc = "loop" => run.count = 0
          /\ run.pc = "returned" => GoalOnlyAtFirst

\* The start state satisfied a non-null goal and solve returned a plan
\* with an action pool.
C30_Witness ==
    /\ run.pc = "returned" /\ run.has_solution = "True"
    /\ ~is_null(goal)
    /\ satisfies(start_state, goal)
    /\ Len(run.returned[1].actions) >= 2
====
